---- MODULE Spec2Model ----
(***************************************************************************)
(* Model of the document ingestion pipeline of src/src/ingest.py:          *)
(* DocumentIngestionPipeline (construction, run and its stages), the       *)
(* scratch directory, the raw-docs bucket and the vector-store bucket,     *)
(* the entry point run_ingestion, and the HTTP handlers of src/src/main.py.*)
(*                                                                         *)
(* Spec: one pipeline object is constructed once and run() may be called   *)
(* on it up to MaxRuns times.  run() is sequential; pc is its position.    *)
(* Every external call (storage, parser, FAISS, rmtree) is an input of the *)
(* action that makes it, drawn with \E from the outcomes it can have.      *)
(* EntrySpec: the same pipeline reached through run_ingestion().           *)
(* ChunkSpec: process_documents applied to parser answers drawn in Init.   *)
(* ApiSpec: the FastAPI application serving requests one after another.    *)
(***************************************************************************)
EXTENDS Integers, Sequences, FiniteSets, TLC

VARIABLES
    pc,          \* position of the program: construction, stage of run(), or terminal
    config,      \* IngestionConfig of the pipeline
    bucket,      \* raw-docs bucket: index into BlobNames -> size of the object
    remote,      \* vector-store bucket: blob name -> "this_run" or "earlier_run", the
                 \* run whose artifact the blob was written from
    temp_dir,    \* temporary directory of the current run, named by the run (0: none)
    temp_exists, \* os.path.exists(temp_dir)
    fs,          \* files downloaded into temp_dir: local path -> size
    artifact,    \* the faiss_index directory as save_local left it in this run
    run_id,      \* number of run() calls started
    attempts,    \* calls of the function wrapped by retry.Retry in the current stage
    pdf_files,   \* run(): result of download_from_gcs
    valid_files, \* run(): result of validate_pdf_files
    chunks,      \* run(): result of process_documents
    stats,       \* run(): the stats dictionary
    pending,     \* exception propagating out of the with-block (None: none)
    error,       \* exception the last construction or run raised to its caller
    stages,      \* history: stages the current run has entered, in order
    failed_stage,\* history: the stage of the current run whose call raised ("": none)
    cause,       \* history: the storage error behind that, for download and upload
    parser_called, \* history: parse_pdf_elements was called in the current run
    rmtree,      \* history: "none", or how shutil.rmtree(temp_dir) ended: "ok", "failed"
    now,         \* time.time() relative to the start of the current run
    bucket_checks, \* history: the bucket.exists() calls made, in order, and their answers
    environ,     \* os.environ as run_ingestion() finds it after load_dotenv()
    input,       \* ChunkSpec: the elements parse_pdf_elements answered with
    rag_system,  \* ApiSpec: what get_rag_system() has cached ("none": nothing yet)
    request,     \* ApiSpec: the request being answered or answered last
    response,    \* ApiSpec: the answer to it (NoResponse: none yet)
    rag_calls    \* ApiSpec: history, calls of the RAG system made for that request

pipeline_vars == <<pc, config, bucket, remote, temp_dir, temp_exists, fs, artifact,
                   run_id, attempts, pdf_files, valid_files, chunks, stats, pending,
                   error, stages, failed_stage, cause, parser_called, rmtree, now,
                   bucket_checks>>

api_vars == <<rag_system, request, response, rag_calls>>

vars == <<pipeline_vars, environ, input, api_vars>>

-----------------------------------------------------------------------------
(* Bounds of the model *)

MaxSize == 1        \* largest size of an object or file
MaxRuns == 2        \* run() calls on the one pipeline
MaxElements == 2    \* elements the parser returns
MaxChunkSize == 1   \* largest chunk_size tried (chunk_overlap: one more)
RetryBudget == 2    \* attempts retry.Retry's deadline would allow
MaxPaths == 2       \* paths in a list handed to validate_pdf_files directly
MaxTextLen == 4     \* ChunkSpec: longest text or table HTML of an element
MaxWindow == 3      \* ChunkSpec: largest chunk_size
MaxQueryLen == 3    \* ApiSpec: longest query text

(* IngestionConfig defaults: max_retries, chunk_size, chunk_overlap *)
max_retries == 3
chunk_size_default == 1000
chunk_overlap_default == 100

-----------------------------------------------------------------------------
(* Exceptions: a type and the message, kept as the chain of its parts *)

None == [type |-> "None", msg |-> <<>>]

Exc(t, m) == [type |-> t, msg |-> m]

IngestionError(m) == Exc("IngestionError", m)

(* Errors the storage service can answer with: one transient, one not *)
ServiceUnavailable == Exc("ServiceUnavailable", <<"503">>)
Forbidden == Exc("Forbidden", <<"403">>)
StorageErrors == {ServiceUnavailable, Forbidden}

(* google.api_core.retry.if_transient_error *)
if_transient_error(e) ==
    e.type \in {"InternalServerError", "TooManyRequests", "ServiceUnavailable"}

(* Mutant: every exception is retried, whatever the predicate says *)
Retry_again_any(e, n) == e # None /\ n < RetryBudget

(* retry.Retry(predicate): call again iff the exception that left the wrapped
   function satisfies the predicate and the deadline is not used up *)
Retry_again(e, n) == e # None /\ if_transient_error(e) /\ n < RetryBudget

-----------------------------------------------------------------------------
(* Objects of the raw-docs bucket *)

BlobNames == << [name |-> "a.pdf", suffix |-> ".pdf"],
                [name |-> "b.PDF", suffix |-> ".PDF"],
                [name |-> "c.txt", suffix |-> ".txt"] >>

lower(s) == CASE s = ".PDF" -> ".pdf"
              [] s = ".Pdf" -> ".pdf"
              [] s = ".TXT" -> ".txt"
              [] s = "True" -> "true"
              [] s = "False" -> "false"
              [] OTHER -> s

(* blob.name.lower().endswith(".pdf") *)
is_pdf(blob) == lower(blob.suffix) = ".pdf"

Min(S) == CHOOSE x \in S : \A y \in S : x <= y

RECURSIVE SortedSeq(_)
SortedSeq(S) == IF S = {} THEN <<>>
                ELSE <<Min(S)>> \o SortedSeq(S \ {Min(S)})

(* bucket.list_blobs(): the objects in name order *)
list_blobs(b) ==
    LET idx == SortedSeq(DOMAIN b)
    IN [i \in 1..Len(idx) |->
           [name |-> BlobNames[idx[i]].name,
            suffix |-> BlobNames[idx[i]].suffix,
            size |-> b[idx[i]]]]

EmptyFs == [p \in {} |-> 0]

Put(f, k, v) == [p \in DOMAIN f \cup {k} |-> IF p = k THEN v ELSE f[p]]

Get(f, k, d) == IF k \in DOMAIN f THEN f[k] ELSE d

-----------------------------------------------------------------------------
(* IngestionConfig and construction of the pipeline *)

(* The dataclass: no __post_init__, so any field values are accepted *)
IngestionConfig(cs, co) ==
    [raw_docs_bucket |-> "proj-dev-raw-docs",
     vector_store_bucket |-> "proj-dev-vector-stores",
     chunk_size |-> cs, chunk_overlap |-> co, max_retries |-> max_retries]

(* Mutant: a splitter constructor that checks nothing *)
text_splitter_init_unchecked(c) == None

(* RecursiveCharacterTextSplitter(chunk_size=, chunk_overlap=): the checks of
   TextSplitter.__init__ *)
text_splitter_init(c) ==
    IF c.chunk_size <= 0 THEN Exc("ValueError", <<"chunk_size must be > 0">>)
    ELSE IF c.chunk_overlap < 0 THEN Exc("ValueError", <<"chunk_overlap must be >= 0">>)
    ELSE IF c.chunk_overlap > c.chunk_size
         THEN Exc("ValueError", <<"Got a larger chunk overlap than chunk size">>)
    ELSE None

(* Mutant: only the raw-docs bucket is checked *)
validate_gcs_buckets_raw_only(raw, vec) ==
    IF ~raw
    THEN IngestionError(<<"GCS bucket validation failed", "Raw docs bucket does not exist">>)
    ELSE None

(* _validate_gcs_buckets: raw reports whether the raw-docs bucket exists,
   vec whether the vector-store bucket does; every failure is wrapped *)
validate_gcs_buckets(raw, vec) ==
    IF ~raw
    THEN IngestionError(<<"GCS bucket validation failed", "Raw docs bucket does not exist">>)
    ELSE IF ~vec
    THEN IngestionError(<<"GCS bucket validation failed", "Vector store bucket does not exist">>)
    ELSE None

(* _validate_gcs_buckets: the exists() calls it makes and their answers; the
   vector-store bucket is asked about only when the raw-docs bucket exists *)
bucket_exists_calls(c, raw, vec) ==
    IF ~raw THEN <<[bucket |-> c.raw_docs_bucket, exists |-> FALSE]>>
    ELSE <<[bucket |-> c.raw_docs_bucket, exists |-> TRUE],
           [bucket |-> c.vector_store_bucket, exists |-> vec]>>

(* DocumentIngestionPipeline.__init__: the storage and embedding clients
   (clients: whether their constructors succeed), the text splitter, then
   the bucket check *)
pipeline_init(c, clients, raw, vec) ==
    IF ~clients THEN Exc("ClientError", <<"no credentials">>)
    ELSE IF text_splitter_init(c) # None THEN text_splitter_init(c)
    ELSE validate_gcs_buckets(raw, vec)

(* DocumentIngestionPipeline.__init__: the exists() calls of a construction;
   none when it fails before _validate_gcs_buckets is reached *)
pipeline_init_checks(c, clients, raw, vec) ==
    IF ~clients \/ text_splitter_init(c) # None THEN <<>>
    ELSE bucket_exists_calls(c, raw, vec)

-----------------------------------------------------------------------------
(* run(): the stats dictionary *)

InitStats == [files_processed |-> 0, chunks_created |-> 0,
              processing_time |-> 0, success |-> FALSE]

(* Mutant: no try around the upload, so its exception leaves run() too *)
propagates_all(stage, raised) == raised # None

(* run(): whether an exception raised by the call of a stage leaves the
   with-block.  Only the upload is wrapped in a try of its own. *)
propagates(stage, raised) == raised # None /\ stage # "upload"

(* Mutant: after the upload run() waits instead of leaving the with-block *)
after_upload_waits(stage, raised) ==
    IF propagates(stage, raised) THEN "cleanup"
    ELSE CASE stage = "download" -> "validate"
           [] stage = "validate" -> "process"
           [] stage = "process" -> "build"
           [] stage = "build" -> "upload"
           [] OTHER -> "waiting"

(* Mutant: an exception of process_documents is swallowed and the run goes on *)
after_swallowing(stage, raised) ==
    IF propagates(stage, raised) /\ stage # "process" THEN "cleanup"
    ELSE CASE stage = "download" -> "validate"
           [] stage = "validate" -> "process"
           [] stage = "process" -> "build"
           [] stage = "build" -> "upload"
           [] OTHER -> "cleanup"

(* run(): where control goes when the call of a stage has ended *)
after(stage, raised) ==
    IF propagates(stage, raised) THEN "cleanup"
    ELSE CASE stage = "download" -> "validate"
           [] stage = "validate" -> "process"
           [] stage = "process" -> "build"
           [] stage = "build" -> "upload"
           [] OTHER -> "cleanup"

(* Mutant: the number of downloaded files is not recorded *)
record_download_nothing(st, files) == st

(* run(): stats["files_processed"] = len(pdf_files) *)
record_download(st, files) == [st EXCEPT !.files_processed = Len(files)]

(* run(): the except clause around upload_to_gcs *)
record_upload(st, raised) ==
    IF raised = None THEN st
    ELSE Put(Put(st, "upload_failed", TRUE), "upload_error", raised.msg)

(* Mutant: the outer except clause re-raises without touching stats *)
run_except_reraise_only(st, t) == st

(* run(): the outer except clause, reached at time t: the elapsed time is
   put into stats before the exception is re-raised *)
run_except(st, t) == [st EXCEPT !.processing_time = t]

(* Mutant: the cleanup written after the yield without try/finally, so that
   it is skipped when the with-block is left by an exception *)
temporary_directory_exit_no_finally(exists, removed, exc) ==
    IF exc # None \/ ~exists THEN [exists |-> exists, rmtree |-> "none"]
    ELSE IF removed THEN [exists |-> FALSE, rmtree |-> "ok"]
    ELSE [exists |-> TRUE, rmtree |-> "failed"]

(* temporary_directory(): the finally clause.  exists: os.path.exists(temp_dir);
   removed: whether rmtree succeeds; exc: the exception leaving the with-block
   (None on return), which the finally clause does not look at. *)
temporary_directory_exit(exists, removed, exc) ==
    IF ~exists THEN [exists |-> FALSE, rmtree |-> "none"]
    ELSE IF removed THEN [exists |-> FALSE, rmtree |-> "ok"]
    ELSE [exists |-> TRUE, rmtree |-> "failed"]

-----------------------------------------------------------------------------
(* download_from_gcs *)


(* Mutant: a blob whose download fails is logged and left out, the loop goes
   on with the next one *)
RECURSIVE download_loop_skip_failed(_, _, _, _, _, _)
download_loop_skip_failed(blobs, i, failAt, e, files, f) ==
    IF i > Len(blobs) THEN [raised |-> None, files |-> files, fs |-> f]
    ELSE IF ~is_pdf(blobs[i]) \/ i = failAt
    THEN download_loop_skip_failed(blobs, i + 1, failAt, e, files, f)
    ELSE download_loop_skip_failed(blobs, i + 1, failAt, e,
                                   Append(files, blobs[i].name),
                                   Put(f, blobs[i].name, blobs[i].size))

(* The for-loop over the listed blobs from position i on.  failAt is the
   position of the blob whose download_to_filename raises e (none when it is
   beyond the list).  Result: the exception (or None), the paths collected
   and the files written. *)
RECURSIVE download_loop(_, _, _, _, _, _)
download_loop(blobs, i, failAt, e, files, f) ==
    IF i > Len(blobs) THEN [raised |-> None, files |-> files, fs |-> f]
    ELSE IF ~is_pdf(blobs[i]) THEN download_loop(blobs, i + 1, failAt, e, files, f)
    ELSE IF i = failAt THEN [raised |-> e, files |-> files, fs |-> f]
    ELSE download_loop(blobs, i + 1, failAt, e,
                       Append(files, blobs[i].name),
                       Put(f, blobs[i].name, blobs[i].size))

(* Mutant: download_from_gcs without its except clause, the storage error
   leaving it as it is *)
download_from_gcs_unwrapped(b, f, failAt, e) ==
    LET blobs == list_blobs(b)
    IN IF failAt = 0 THEN [raised |-> e, files |-> <<>>, fs |-> f]
       ELSE IF Len(blobs) = 0 THEN [raised |-> None, files |-> <<>>, fs |-> f]
       ELSE download_loop(blobs, 1, failAt, e, <<>>, f)

(* The body of download_from_gcs: failAt = 0 is list_blobs raising.  Every
   exception is wrapped into IngestionError by the except clause. *)
download_from_gcs(b, f, failAt, e) ==
    LET blobs == list_blobs(b)
        r == IF failAt = 0 THEN [raised |-> e, files |-> <<>>, fs |-> f]
             ELSE IF Len(blobs) = 0 THEN [raised |-> None, files |-> <<>>, fs |-> f]
             ELSE download_loop(blobs, 1, failAt, e, <<>>, f)
    IN IF r.raised = None THEN r
       ELSE [r EXCEPT !.raised = IngestionError(<<"GCS download failed">> \o r.raised.msg)]

-----------------------------------------------------------------------------
(* validate_pdf_files *)

(* Mutant: the size check left out *)
RECURSIVE validate_pdf_files_no_size(_, _)
validate_pdf_files_no_size(file_paths, f) ==
    IF file_paths = <<>> THEN <<>>
    ELSE LET p == Head(file_paths)
             rest == validate_pdf_files_no_size(Tail(file_paths), f)
         IN IF p \notin DOMAIN f THEN rest ELSE <<p>> \o rest

RECURSIVE validate_pdf_files(_, _)
validate_pdf_files(file_paths, f) ==
    IF file_paths = <<>> THEN <<>>
    ELSE LET p == Head(file_paths)
             rest == validate_pdf_files(Tail(file_paths), f)
         IN IF p \notin DOMAIN f THEN rest
            ELSE IF f[p] = 0 THEN rest
            ELSE <<p>> \o rest

-----------------------------------------------------------------------------
(* Text: a sequence of one-character strings.  RecursiveCharacterTextSplitter
   with its default separators, keep_separator=True, strip_whitespace=True,
   length_function=len *)

Separators == << <<"\n", "\n">>, <<"\n">>, <<" ">>, <<>> >>

Whitespace == {" ", "\n"}

RECURSIVE lstrip(_)
lstrip(t) == IF t # <<>> /\ Head(t) \in Whitespace THEN lstrip(Tail(t)) ELSE t

RECURSIVE rstrip(_)
rstrip(t) == IF t # <<>> /\ t[Len(t)] \in Whitespace
             THEN rstrip(SubSeq(t, 1, Len(t) - 1)) ELSE t

(* str.strip() *)
strip(t) == rstrip(lstrip(t))

(* "".join(docs) *)
RECURSIVE join(_)
join(docs) == IF docs = <<>> THEN <<>> ELSE Head(docs) \o join(Tail(docs))

(* sum of len(d) for d in docs *)
RECURSIVE total_len(_)
total_len(docs) == IF docs = <<>> THEN 0 ELSE Len(Head(docs)) + total_len(Tail(docs))

MatchAt(text, sep, i) ==
    /\ i + Len(sep) - 1 <= Len(text)
    /\ SubSeq(text, i, i + Len(sep) - 1) = sep

(* re.search(separator, text) for a non-empty literal separator *)
re_search(sep, text) == \E i \in 1..Len(text) : MatchAt(text, sep, i)

(* re.split(f"({separator})", text) regrouped with the separator kept at the
   start of the piece that follows it: the pieces from position i on, cur
   being the piece under construction *)
RECURSIVE re_split(_, _, _, _)
re_split(text, sep, i, cur) ==
    IF i > Len(text) THEN <<cur>>
    ELSE IF MatchAt(text, sep, i)
         THEN <<cur>> \o re_split(text, sep, i + Len(sep), sep)
         ELSE re_split(text, sep, i + 1, Append(cur, text[i]))

NonEmpty(s) == s # <<>>

(* _split_text_with_regex(text, separator, keep_separator=True) *)
split_text_with_regex(text, sep) ==
    IF sep # <<>>
    THEN SelectSeq(re_split(text, sep, 1, <<>>), NonEmpty)
    ELSE [i \in 1..Len(text) |-> <<text[i]>>]

(* _join_docs: the joined text stripped, or nothing when that is empty *)
join_docs(docs) ==
    LET t == strip(join(docs)) IN IF t = <<>> THEN <<>> ELSE <<t>>

(* The while-loop of _merge_splits that drops leading pieces of current_doc
   (separator_len is 0 because the separator is kept inside the pieces) *)
RECURSIVE pop_overlap(_, _, _, _)
pop_overlap(current, len, cs, co) ==
    LET total == total_len(current)
    IN IF total > co \/ (total + len > cs /\ total > 0)
       THEN pop_overlap(Tail(current), len, cs, co)
       ELSE current

(* _merge_splits(splits, ""): the loop from position i on *)
RECURSIVE merge_loop(_, _, _, _, _, _)
merge_loop(splits, i, current, docs, cs, co) ==
    IF i > Len(splits) THEN docs \o join_docs(current)
    ELSE LET d == splits[i]
         IN IF total_len(current) + Len(d) > cs /\ Len(current) > 0
            THEN merge_loop(splits, i + 1,
                            Append(pop_overlap(current, Len(d), cs, co), d),
                            docs \o join_docs(current), cs, co)
            ELSE merge_loop(splits, i + 1, Append(current, d), docs, cs, co)

merge_splits(splits, cs, co) == merge_loop(splits, 1, <<>>, <<>>, cs, co)

(* Index of the separator _split_text picks: the first that is "" or occurs
   in the text *)
RECURSIVE pick_separator(_, _, _)
pick_separator(text, seps, i) ==
    IF i >= Len(seps) THEN Len(seps)
    ELSE IF seps[i] = <<>> \/ re_search(seps[i], text) THEN i
    ELSE pick_separator(text, seps, i + 1)

RECURSIVE _split_text(_, _, _, _)
RECURSIVE split_loop(_, _, _, _, _, _, _)

(* The loop of _split_text over the pieces, from position i on: good is
   _good_splits, final is final_chunks *)
split_loop(splits, i, good, final, new_separators, cs, co) ==
    IF i > Len(splits)
    THEN IF good # <<>> THEN final \o merge_splits(good, cs, co) ELSE final
    ELSE LET s == splits[i]
         IN IF Len(s) < cs
            THEN split_loop(splits, i + 1, Append(good, s), final, new_separators, cs, co)
            ELSE LET flushed == IF good # <<>> THEN final \o merge_splits(good, cs, co)
                                ELSE final
                     more == IF new_separators = <<>> THEN <<s>>
                             ELSE _split_text(s, new_separators, cs, co)
                 IN split_loop(splits, i + 1, <<>>, flushed \o more, new_separators, cs, co)

_split_text(text, seps, cs, co) ==
    LET k == pick_separator(text, seps, 1)
        separator == seps[k]
        new_separators == IF separator = <<>> THEN <<>>
                          ELSE SubSeq(seps, k + 1, Len(seps))
    IN split_loop(split_text_with_regex(text, separator), 1, <<>>, <<>>,
                  new_separators, cs, co)

(* Mutant: the last window is lost *)
split_text_drop_last(text, cs, co) ==
    LET r == _split_text(text, Separators, cs, co)
    IN IF Len(r) > 1 THEN SubSeq(r, 1, Len(r) - 1) ELSE r

(* Mutant: the text is not cut at all, one window whatever its length *)
split_text_whole(text, cs, co) == IF strip(text) = <<>> THEN <<>> ELSE <<strip(text)>>

(* RecursiveCharacterTextSplitter.split_text *)
split_text(text, cs, co) == _split_text(text, Separators, cs, co)

-----------------------------------------------------------------------------
(* Elements and chunks: page_content and a metadata dictionary *)

(* A path or URI is a string, kept as the sequence of its parts: the
   separator "/" and the names between separators *)

(* The empty string *)
NoPath == <<>>

(* os.path.join(temp_dir, name), temp_dir as tempfile.mkdtemp() made it *)
LocalPath(dir, name) == <<"/", "tmp", "/", ToString(dir), "/", name>>

(* A bare file name, as the parser reports it in metadata["filename"] *)
BarePath(name) == <<name>>

(* f"gs://{bucket}/{filename}" *)
GcsUri(bkt, name) ==
    <<"gs:", "/", "/", bkt, "/">> \o (IF name = "" THEN <<>> ELSE <<name>>)

(* Mutant: the first component taken instead of the last *)
PathName_first(p) ==
    LET parts == SelectSeq(p, LAMBDA x : x # "/")
    IN IF parts = <<>> THEN "" ELSE parts[1]

(* Path(p).name: the final component, separators (repeated or trailing)
   dropped; the empty string when there is none *)
PathName(p) ==
    LET parts == SelectSeq(p, LAMBDA x : x # "/")
    IN IF parts = <<>> THEN "" ELSE parts[Len(parts)]

Document(content, meta) == [page_content |-> content, metadata |-> meta]

(* split_documents([element]): one chunk per window, each with a copy of the
   element's metadata *)
split_documents(element, cs, co) ==
    LET texts == split_text(element.page_content, cs, co)
    IN [i \in 1..Len(texts) |-> Document(texts[i], element.metadata)]

(* The text lane's rewrite of one chunk's metadata *)
rewrite_text_chunk(chunk, c, t) ==
    LET original_filename == PathName(Get(chunk.metadata, "source", NoPath))
        gcs_source_path == GcsUri(c.raw_docs_bucket, original_filename)
    IN Document(chunk.page_content,
                Put(Put(Put(chunk.metadata, "source", gcs_source_path),
                        "content_type", "text"),
                    "ingestion_timestamp", t))

(* The table lane's chunk *)
table_chunk(element, table_html, t) ==
    Document(table_html,
             [source |-> Get(element.metadata, "filename", NoPath),
              page_number |-> Get(element.metadata, "page_number", 0),
              content_type |-> "table",
              ingestion_timestamp |-> t])

(* Mutant: an element that is no table is treated as text, whatever its
   category *)
element_chunks_text_by_default(element, c, t) ==
    LET category == Get(element.metadata, "category", "None")
    IN IF category = "Table"
       THEN LET table_html == Get(element.metadata, "text_as_html", <<>>)
            IN IF table_html # <<>> THEN <<table_chunk(element, table_html, t)>>
               ELSE <<>>
       ELSE LET cks == split_documents(element, c.chunk_size, c.chunk_overlap)
            IN [i \in 1..Len(cks) |-> rewrite_text_chunk(cks[i], c, t)]

(* Mutant: the table's HTML goes through the text splitter like any text *)
element_chunks_tables_split(element, c, t) ==
    LET category == Get(element.metadata, "category", "None")
    IN IF category = "Table"
       THEN LET parts == split_text(Get(element.metadata, "text_as_html", <<>>),
                                    c.chunk_size, c.chunk_overlap)
            IN [i \in 1..Len(parts) |-> table_chunk(element, parts[i], t)]
       ELSE IF category \in {"Title", "NarrativeText", "ListItem"}
       THEN LET cks == split_documents(element, c.chunk_size, c.chunk_overlap)
            IN [i \in 1..Len(cks) |-> rewrite_text_chunk(cks[i], c, t)]
       ELSE <<>>

(* The chunks one element contributes in the loop of process_documents *)
element_chunks(element, c, t) ==
    LET category == Get(element.metadata, "category", "None")
    IN IF category = "Table"
       THEN LET table_html == Get(element.metadata, "text_as_html", <<>>)
            IN IF table_html # <<>> THEN <<table_chunk(element, table_html, t)>>
               ELSE <<>>
       ELSE IF category \in {"Title", "NarrativeText", "ListItem"}
       THEN LET cks == split_documents(element, c.chunk_size, c.chunk_overlap)
            IN [i \in 1..Len(cks) |-> rewrite_text_chunk(cks[i], c, t)]
       ELSE <<>>

RECURSIVE all_chunks(_, _, _)
all_chunks(elements, c, t) ==
    IF elements = <<>> THEN <<>>
    ELSE element_chunks(Head(elements), c, t) \o all_chunks(Tail(elements), c, t)

(* Mutant: the guard against an empty file list left out *)
process_documents_unchecked(pdf_files_, parsed, c, t) ==
    IF parsed.raised # None
    THEN [raised |-> IngestionError(<<"Document processing failed">> \o parsed.raised.msg),
          chunks |-> <<>>, parser_called |-> TRUE]
    ELSE [raised |-> None, chunks |-> all_chunks(parsed.elements, c, t),
          parser_called |-> TRUE]

(* process_documents: parsed is what parse_pdf_elements answers when called,
   an exception or the elements.  The empty input is refused before the try; any exception
   inside it is wrapped. *)
process_documents(pdf_files_, parsed, c, t) ==
    IF pdf_files_ = <<>>
    THEN [raised |-> IngestionError(<<"No valid PDF files to process">>),
          chunks |-> <<>>, parser_called |-> FALSE]
    ELSE IF parsed.raised # None
    THEN [raised |-> IngestionError(<<"Document processing failed">> \o parsed.raised.msg),
          chunks |-> <<>>, parser_called |-> TRUE]
    ELSE [raised |-> None, chunks |-> all_chunks(parsed.elements, c, t),
          parser_called |-> TRUE]

-----------------------------------------------------------------------------
(* What parse_pdf_elements can answer in a run: an exception, or up to
   MaxElements elements of the files it was given *)

ParserError == Exc("RuntimeError", <<"parser failed">>)

ElementMeta(dir, f, category) ==
    [source |-> LocalPath(dir, f), filename |-> BarePath(f),
     category |-> category, page_number |-> 1]

TableElement(dir, f) ==
    Document(<<"t">>, Put(ElementMeta(dir, f, "Table"), "text_as_html", <<"<", "t", ">">>))

TextElement(dir, f) == Document(<<"a", "b", "c">>, ElementMeta(dir, f, "NarrativeText"))

OtherElement(dir, f) == Document(<<"h">>, ElementMeta(dir, f, "Header"))

(* An element whose metadata carries no category: metadata.get("category")
   answers None *)
UncategorisedElement(dir, f) ==
    Document(<<"u">>,
             [source |-> LocalPath(dir, f), filename |-> BarePath(f), page_number |-> 1])

Range(q) == {q[i] : i \in DOMAIN q}

ElementKinds == {"Table", "NarrativeText", "Header"}

ElementOf(kind, dir, f) ==
    CASE kind = "Table" -> TableElement(dir, f)
      [] kind = "NarrativeText" -> TextElement(dir, f)
      [] OTHER -> OtherElement(dir, f)

SeqsUpTo(S, n) == UNION {[1..k -> S] : k \in 0..n}

(* The i-th element is taken from the files in turn *)
ParserAnswers(dir, files) ==
    {[raised |-> ParserError, elements |-> <<>>]}
    \cup {[raised |-> None,
           elements |-> [i \in 1..Len(kinds) |->
                            ElementOf(kinds[i], dir, files[((i - 1) % Len(files)) + 1])]] :
             kinds \in IF files = <<>> THEN {<<>>} ELSE SeqsUpTo(ElementKinds, MaxElements)}

-----------------------------------------------------------------------------
(* create_vector_store *)

FaissFiles == <<"index.faiss", "index.pkl">>

EmbeddingError == Exc("APIError", <<"embedding failed">>)

(* What FAISS.from_documents and save_local can leave behind: an exception,
   or the directory (or not) with each file missing, empty or non-empty *)
SaveAnswers ==
    {[raised |-> EmbeddingError, dir |-> FALSE, files |-> EmptyFs]}
    \cup {[raised |-> None, dir |-> FALSE, files |-> EmptyFs]}
    \cup {[raised |-> None, dir |-> TRUE, files |-> f] :
             f \in UNION {[present -> 0..MaxSize] : present \in SUBSET Range(FaissFiles)}}

(* Mutant: existence checked, size not *)
RECURSIVE required_files_check_no_size(_, _)
required_files_check_no_size(files, i) ==
    IF i > Len(FaissFiles) THEN None
    ELSE IF FaissFiles[i] \notin DOMAIN files
    THEN IngestionError(<<"Required FAISS file not found", FaissFiles[i]>>)
    ELSE required_files_check_no_size(files, i + 1)

(* The loop over required_files from position i on: the first violation *)
RECURSIVE required_files_check(_, _)
required_files_check(files, i) ==
    IF i > Len(FaissFiles) THEN None
    ELSE IF FaissFiles[i] \notin DOMAIN files
    THEN IngestionError(<<"Required FAISS file not found", FaissFiles[i]>>)
    ELSE IF files[FaissFiles[i]] = 0
    THEN IngestionError(<<"FAISS file is empty", FaissFiles[i]>>)
    ELSE required_files_check(files, i + 1)

(* Mutant: an empty chunk list is passed on to FAISS like any other *)
create_vector_store_any_chunks(chunks_, saved) ==
    LET inner == IF saved.raised # None THEN saved.raised
                 ELSE IF ~saved.dir
                 THEN IngestionError(<<"FAISS index directory was not created">>)
                 ELSE required_files_check(saved.files, 1)
    IN IF inner # None
       THEN IngestionError(<<"Vector store creation failed">> \o inner.msg)
       ELSE None

(* Mutant: a violation found by the validation is logged, not raised *)
create_vector_store_warn(chunks_, saved) ==
    IF chunks_ = <<>>
    THEN IngestionError(<<"No chunks provided for vector store creation">>)
    ELSE IF saved.raised # None
    THEN IngestionError(<<"Vector store creation failed">> \o saved.raised.msg)
    ELSE None

(* create_vector_store(chunks, local_dir): saved is what the FAISS calls did.
   The empty input is refused before the try; every exception raised inside
   it, the validation's own included, is wrapped again. *)
create_vector_store(chunks_, saved) ==
    LET inner == IF saved.raised # None THEN saved.raised
                 ELSE IF ~saved.dir
                 THEN IngestionError(<<"FAISS index directory was not created">>)
                 ELSE required_files_check(saved.files, 1)
    IN IF chunks_ = <<>>
       THEN IngestionError(<<"No chunks provided for vector store creation">>)
       ELSE IF inner # None
       THEN IngestionError(<<"Vector store creation failed">> \o inner.msg)
       ELSE None

-----------------------------------------------------------------------------
(* upload_to_gcs *)

BlobPath(blob_name, filename) == <<blob_name, filename>>

(* Mutant: a failed upload of one file is logged and the loop goes on *)
RECURSIVE upload_loop_continue(_, _, _, _, _, _)
upload_loop_continue(art, i, failAt, e, r, run) ==
    IF i > Len(FaissFiles) THEN [raised |-> None, remote |-> r]
    ELSE IF FaissFiles[i] \notin DOMAIN art.files \/ i = failAt
    THEN upload_loop_continue(art, i + 1, failAt, e, r, run)
    ELSE upload_loop_continue(art, i + 1, failAt, e,
                              Put(r, BlobPath("faiss_index", FaissFiles[i]), run), run)

(* The loop over faiss_files from position i on; failAt is the position whose
   upload_from_filename raises e; a file that is absent locally is only
   logged.  r is the vector-store bucket, run the artifact being written. *)
RECURSIVE upload_loop(_, _, _, _, _, _)
upload_loop(art, i, failAt, e, r, run) ==
    IF i > Len(FaissFiles) THEN [raised |-> None, remote |-> r]
    ELSE IF FaissFiles[i] \notin DOMAIN art.files
    THEN upload_loop(art, i + 1, failAt, e, r, run)
    ELSE IF i = failAt THEN [raised |-> e, remote |-> r]
    ELSE upload_loop(art, i + 1, failAt, e,
                     Put(r, BlobPath("faiss_index", FaissFiles[i]), run), run)

(* The body of upload_to_gcs: a directory is uploaded file by file, anything
   else as one blob (which raises when the path does not exist); every
   exception is wrapped *)
upload_to_gcs(art, failAt, e, r, run) ==
    LET res == IF art.dir THEN upload_loop(art, 1, failAt, e, r, run)
               ELSE [raised |-> Exc("FileNotFoundError", <<"faiss_index">>), remote |-> r]
    IN IF res.raised = None THEN res
       ELSE [res EXCEPT !.raised = IngestionError(<<"GCS upload failed">> \o res.raised.msg)]

-----------------------------------------------------------------------------
(* The part of the state that belongs to another entry point and is not
   touched by the pipeline object *)

(* The empty environment (the pipeline object itself reads none) *)
NoEnviron == [v \in {} |-> ""]

NoRequest == [endpoint |-> "", text |-> <<>>]

NoResponse == [status_code |-> 0, body |-> <<>>]

(* The FastAPI application before its first request *)
ApiIdle ==
    /\ rag_system = "none"
    /\ request = NoRequest
    /\ response = NoResponse
    /\ rag_calls = <<>>

-----------------------------------------------------------------------------
Init ==
    /\ pc = "new"
    /\ \E cs \in -1..MaxChunkSize, co \in -1..(MaxChunkSize + 1) :
          config = IngestionConfig(cs, co)
    /\ \E present \in SUBSET (1..Len(BlobNames)) :
          /\ bucket \in [present -> 0..MaxSize]
          \* the size of an object that is never downloaded plays no part
          /\ \A i \in present : is_pdf(BlobNames[i]) \/ bucket[i] = MaxSize
    /\ remote = EmptyFs
    /\ temp_dir = 0
    /\ temp_exists = FALSE
    /\ fs = EmptyFs
    /\ artifact = [dir |-> FALSE, files |-> EmptyFs]
    /\ run_id = 0
    /\ attempts = 0
    /\ pdf_files = <<>>
    /\ valid_files = <<>>
    /\ chunks = <<>>
    /\ stats = InitStats
    /\ pending = None
    /\ error = None
    /\ stages = <<>>
    /\ failed_stage = ""
    /\ cause = None
    /\ parser_called = FALSE
    /\ rmtree = "none"
    /\ now = 0
    /\ bucket_checks = <<>>
    /\ environ = NoEnviron
    /\ input = <<>>
    /\ ApiIdle

(* DocumentIngestionPipeline(config) *)
Construct ==
    /\ pc = "new"
    /\ \E clients \in BOOLEAN, raw \in BOOLEAN, vec \in BOOLEAN :
          LET e == pipeline_init(config, clients, raw, vec)
          IN /\ error' = e
             /\ pc' = IF e = None THEN "ready" ELSE "construct_failed"
             /\ bucket_checks' = pipeline_init_checks(config, clients, raw, vec)
    /\ UNCHANGED <<config, bucket, remote, temp_dir, temp_exists, fs, artifact, run_id,
                   attempts, pdf_files, valid_files, chunks, stats, pending,
                   stages, failed_stage, cause, parser_called, rmtree, now>>
    /\ UNCHANGED <<environ, input, api_vars>>

(* run(), up to entering the with-block: stats initialised, mkdtemp *)
StartRun ==
    /\ pc \in {"ready", "returned", "raised"}
    /\ run_id < MaxRuns
    /\ run_id' = run_id + 1
    /\ temp_dir' = run_id + 1
    /\ temp_exists' = TRUE
    /\ fs' = EmptyFs
    /\ artifact' = [dir |-> FALSE, files |-> EmptyFs]
    /\ stats' = InitStats
    /\ attempts' = 0
    /\ pdf_files' = <<>>
    /\ valid_files' = <<>>
    /\ chunks' = <<>>
    /\ pending' = None
    /\ error' = None
    /\ stages' = <<>>
    /\ failed_stage' = ""
    /\ cause' = None
    /\ parser_called' = FALSE
    /\ rmtree' = "none"
    /\ now' = 0
    /\ pc' = "download"
    /\ remote' = [p \in DOMAIN remote |-> "earlier_run"]
    /\ UNCHANGED <<config, bucket>>
    /\ UNCHANGED <<bucket_checks, environ, input, api_vars>>

(* One call of the wrapped download_from_gcs and what retry.Retry does with
   its outcome; on success stats["files_processed"] is set *)
Download ==
    /\ pc = "download"
    /\ \E failAt \in 0..(Cardinality(DOMAIN bucket) + 1), e \in StorageErrors :
          LET r == download_from_gcs(bucket, fs, failAt, e)
          IN /\ fs' = r.fs
             /\ IF r.raised = None
                THEN /\ pdf_files' = r.files
                     /\ stats' = record_download(stats, r.files)
                     /\ pc' = after("download", None)
                     /\ UNCHANGED <<pending, cause, failed_stage>>
                ELSE /\ cause' = e
                     /\ failed_stage' = "download"
                     /\ IF Retry_again(r.raised, attempts + 1)
                        THEN /\ pc' = "download"
                             /\ UNCHANGED pending
                        ELSE /\ pc' = after("download", r.raised)
                             /\ pending' = r.raised
                     /\ UNCHANGED <<pdf_files, stats>>
    /\ attempts' = attempts + 1
    /\ stages' = IF attempts = 0 THEN Append(stages, "download") ELSE stages
    /\ now' = now + 1
    /\ UNCHANGED <<config, bucket, remote, temp_dir, temp_exists, artifact, run_id,
                   valid_files, chunks, error, parser_called, rmtree>>
    /\ UNCHANGED <<bucket_checks, environ, input, api_vars>>

(* valid_files = self.validate_pdf_files(pdf_files) *)
Validate ==
    /\ pc = "validate"
    /\ valid_files' = validate_pdf_files(pdf_files, fs)
    /\ stages' = Append(stages, "validate")
    /\ attempts' = 0
    /\ now' = now + 1
    /\ pc' = after("validate", None)
    /\ UNCHANGED <<config, bucket, remote, temp_dir, temp_exists, fs, artifact, run_id,
                   pdf_files, chunks, stats, pending, error, failed_stage, cause,
                   parser_called, rmtree>>
    /\ UNCHANGED <<bucket_checks, environ, input, api_vars>>

(* chunks = self.process_documents(valid_files); stats["chunks_created"] *)
Process ==
    /\ pc = "process"
    /\ \E parsed \in ParserAnswers(temp_dir, valid_files) :
          LET r == process_documents(valid_files, parsed, config, now + 1)
          IN /\ parser_called' = r.parser_called
             /\ pc' = after("process", r.raised)
             /\ pending' = r.raised
             /\ IF r.raised = None
                THEN /\ chunks' = r.chunks
                     /\ stats' = [stats EXCEPT !.chunks_created = Len(r.chunks)]
                     /\ UNCHANGED failed_stage
                ELSE /\ failed_stage' = "process"
                     /\ UNCHANGED <<chunks, stats>>
    /\ stages' = Append(stages, "process")
    /\ now' = now + 1
    /\ UNCHANGED <<config, bucket, remote, temp_dir, temp_exists, fs, artifact, run_id,
                   attempts, pdf_files, valid_files, error, cause, rmtree>>
    /\ UNCHANGED <<bucket_checks, environ, input, api_vars>>

(* vector_store_path = self.create_vector_store(chunks, temp_dir) *)
CreateVectorStore ==
    /\ pc = "build"
    /\ \E saved \in SaveAnswers :
          LET e == create_vector_store(chunks, saved)
          IN /\ artifact' = IF chunks = <<>> THEN artifact
                            ELSE [dir |-> saved.dir, files |-> saved.files]
             /\ pc' = after("build", e)
             /\ pending' = e
             /\ failed_stage' = IF e = None THEN failed_stage ELSE "build"
    /\ stages' = Append(stages, "build")
    /\ now' = now + 1
    /\ UNCHANGED <<config, bucket, remote, temp_dir, temp_exists, fs, run_id, attempts,
                   pdf_files, valid_files, chunks, stats, error, cause,
                   parser_called, rmtree>>
    /\ UNCHANGED <<bucket_checks, environ, input, api_vars>>

(* One call of the wrapped upload_to_gcs and what retry.Retry does with its
   outcome, then run()'s except clause around it and the lines that follow:
   an upload failure is recorded in stats, success and processing_time are
   set, and run() returns through the with-block *)
Upload ==
    /\ pc = "upload"
    /\ \E failAt \in 1..(Len(FaissFiles) + 1), e \in StorageErrors :
          LET r == upload_to_gcs(artifact, failAt, e, remote, "this_run")
          IN /\ remote' = r.remote
             /\ cause' = IF r.raised = None THEN cause ELSE e
             /\ failed_stage' = IF r.raised = None THEN failed_stage ELSE "upload"
             /\ IF Retry_again(r.raised, attempts + 1)
                THEN /\ pc' = "upload"
                     /\ UNCHANGED <<stats, pending>>
                ELSE /\ pc' = after("upload", r.raised)
                     /\ IF propagates("upload", r.raised)
                        THEN /\ pending' = r.raised
                             /\ UNCHANGED stats
                        ELSE /\ stats' = [record_upload(stats, r.raised)
                                            EXCEPT !.success = TRUE,
                                                   !.processing_time = now + 1]
                             /\ UNCHANGED pending
    /\ attempts' = attempts + 1
    /\ stages' = IF attempts = 0 THEN Append(stages, "upload") ELSE stages
    /\ now' = now + 1
    /\ UNCHANGED <<config, bucket, temp_dir, temp_exists, fs, artifact, run_id,
                   pdf_files, valid_files, chunks, error, parser_called, rmtree>>
    /\ UNCHANGED <<bucket_checks, environ, input, api_vars>>

(* Leaving the with-block: the finally clause of temporary_directory (rmtree,
   whose failure is logged and swallowed), then either the return of stats
   or run()'s outer except clause, which sets processing_time and re-raises *)
Cleanup ==
    /\ pc = "cleanup"
    /\ \E removed \in BOOLEAN :
          LET r == temporary_directory_exit(temp_exists, removed, pending)
          IN /\ temp_exists' = r.exists
             /\ rmtree' = r.rmtree
             /\ fs' = IF r.exists THEN fs ELSE EmptyFs
    /\ now' = now + 1
    /\ IF pending = None
       THEN /\ pc' = "returned"
            /\ UNCHANGED <<stats, error>>
       ELSE /\ pc' = "raised"
            /\ stats' = run_except(stats, now + 1)
            /\ error' = pending
    /\ UNCHANGED <<config, bucket, remote, temp_dir, artifact, run_id, attempts,
                   pdf_files, valid_files, chunks, pending, stages, failed_stage,
                   cause, parser_called>>
    /\ UNCHANGED <<bucket_checks, environ, input, api_vars>>

Next == Construct \/ StartRun \/ Download \/ Validate \/ Process
        \/ CreateVectorStore \/ Upload \/ Cleanup

Spec == Init /\ [][Next]_vars

(* The same program under the assumption that every external call returns
   or raises: run() is straight-line code, so a run that has been started
   takes each of its steps in turn.  Whether the object is constructed and
   whether a run is started is left to the caller.  The configuration is one
   the constructor accepts: a run needs a pipeline object. *)
LiveInit == Init /\ config = IngestionConfig(MaxChunkSize, 0)

LiveSpec ==
    /\ LiveInit
    /\ [][Next]_vars
    /\ WF_vars(Download)
    /\ WF_vars(Validate)
    /\ WF_vars(Process)
    /\ WF_vars(CreateVectorStore)
    /\ WF_vars(Upload)
    /\ WF_vars(Cleanup)

-----------------------------------------------------------------------------
(* EntrySpec: run_ingestion(), which reads the environment, builds the
   configuration, constructs the pipeline and calls run() on it once *)

(* os.getenv's answer for a variable that is not set and has no default *)
Unset == "<unset>"

(* os.getenv(name, default) *)
getenv(e, name, default) == IF name \in DOMAIN e THEN e[name] ELSE default

(* The configuration before run_ingestion has built one *)
NoConfig ==
    [raw_docs_bucket |-> "", vector_store_bucket |-> "",
     chunk_size |-> 0, chunk_overlap |-> 0, max_retries |-> 0]

(* Mutant: only a variable that is not set is refused, an empty one passes *)
run_ingestion_config_unset_only(e) ==
    LET project_id == getenv(e, "GCP_PROJECT_ID", Unset)
        environment == getenv(e, "ENVIRONMENT", "dev")
    IN IF project_id = Unset
       THEN [raised |-> Exc("ValueError",
                            <<"GCP_PROJECT_ID environment variable is required">>),
             config |-> NoConfig]
       ELSE [raised |-> None,
             config |-> [raw_docs_bucket |-> project_id \o "-" \o environment \o "-raw-docs",
                         vector_store_bucket |->
                             project_id \o "-" \o environment \o "-vector-stores",
                         chunk_size |-> chunk_size_default,
                         chunk_overlap |-> chunk_overlap_default,
                         max_retries |-> max_retries]]

(* run_ingestion up to the construction of the pipeline: the check of the
   project identifier (`not project_id`: not set, or empty) and the
   configuration built from it *)
run_ingestion_config(e) ==
    LET project_id == getenv(e, "GCP_PROJECT_ID", Unset)
        environment == getenv(e, "ENVIRONMENT", "dev")
    IN IF project_id \in {Unset, ""}
       THEN [raised |-> Exc("ValueError",
                            <<"GCP_PROJECT_ID environment variable is required">>),
             config |-> NoConfig]
       ELSE [raised |-> None,
             config |-> [raw_docs_bucket |-> project_id \o "-" \o environment \o "-raw-docs",
                         vector_store_bucket |->
                             project_id \o "-" \o environment \o "-vector-stores",
                         chunk_size |-> chunk_size_default,
                         chunk_overlap |-> chunk_overlap_default,
                         max_retries |-> max_retries]]

(* The environments tried: each variable not set, empty where that matters,
   or set *)
Environs ==
    UNION {[d -> {"", "proj", "prod"}] : d \in SUBSET {"GCP_PROJECT_ID", "ENVIRONMENT"}}

EntryInit ==
    /\ pc = "entry"
    /\ config = NoConfig
    /\ environ \in Environs
    /\ "GCP_PROJECT_ID" \in DOMAIN environ => environ["GCP_PROJECT_ID"] \in {"", "proj"}
    /\ "ENVIRONMENT" \in DOMAIN environ => environ["ENVIRONMENT"] = "prod"
    /\ \E present \in SUBSET (1..Len(BlobNames)) :
          /\ bucket \in [present -> 0..MaxSize]
          /\ \A i \in present : is_pdf(BlobNames[i]) \/ bucket[i] = MaxSize
    /\ remote = EmptyFs
    /\ temp_dir = 0
    /\ temp_exists = FALSE
    /\ fs = EmptyFs
    /\ artifact = [dir |-> FALSE, files |-> EmptyFs]
    /\ run_id = 0
    /\ attempts = 0
    /\ pdf_files = <<>>
    /\ valid_files = <<>>
    /\ chunks = <<>>
    /\ stats = InitStats
    /\ pending = None
    /\ error = None
    /\ stages = <<>>
    /\ failed_stage = ""
    /\ cause = None
    /\ parser_called = FALSE
    /\ rmtree = "none"
    /\ now = 0
    /\ bucket_checks = <<>>
    /\ input = <<>>
    /\ ApiIdle

(* run_ingestion(): load_dotenv, the project identifier, the configuration;
   what follows (the constructor, run()) are the pipeline's own actions *)
RunIngestion ==
    /\ pc = "entry"
    /\ LET r == run_ingestion_config(environ)
       IN /\ error' = r.raised
          /\ config' = r.config
          /\ pc' = IF r.raised = None THEN "new" ELSE "config_error"
    /\ UNCHANGED <<bucket, remote, temp_dir, temp_exists, fs, artifact, run_id,
                   attempts, pdf_files, valid_files, chunks, stats, pending,
                   stages, failed_stage, cause, parser_called, rmtree, now,
                   bucket_checks, environ, input, api_vars>>

(* stats = pipeline.run(): run_ingestion calls it once *)
RunOnce == run_id = 0 /\ StartRun

EntryNext == RunIngestion \/ Construct \/ RunOnce \/ Download \/ Validate \/ Process
             \/ CreateVectorStore \/ Upload \/ Cleanup

EntrySpec == EntryInit /\ [][EntryNext]_vars

-----------------------------------------------------------------------------
(* ChunkSpec: process_documents on its own.  What parse_pdf_elements answers
   is drawn in Init: one element of any category, its text or its table HTML
   ranging over every string of up to MaxTextLen characters, alone or with a
   table or a text element next to it; the splitter's chunk_size and
   chunk_overlap range over every pair the constructor accepts. *)

Alphabet == {"a", "b", " ", "\n"}

Texts == SeqsUpTo(Alphabet, MaxTextLen)

(* The one file of these runs, downloaded into the first run's directory *)
ChunkFile == "a.pdf"

(* An element as UnstructuredLoader yields it: source is the path it was
   given, filename the bare name; a table carries its HTML rendering *)
ElementWith(category, text) ==
    IF category = "Table"
    THEN Document(<<"t">>, Put(ElementMeta(1, ChunkFile, "Table"), "text_as_html", text))
    ELSE Document(text, ElementMeta(1, ChunkFile, category))

ChunkElements ==
    {ElementWith(k, t) : k \in {"Table", "NarrativeText"}, t \in Texts}
    \cup {Document(<<"t">>, ElementMeta(1, ChunkFile, "Table")),
          ElementWith("Title", <<"a", "b">>),
          ElementWith("ListItem", <<"a", " ", "b">>),
          OtherElement(1, ChunkFile),
          UncategorisedElement(1, ChunkFile)}

Neighbours == {TableElement(1, ChunkFile), TextElement(1, ChunkFile)}

(* The default configuration's run of a paragraph a fifth longer than
   chunk_size together with one table, at a scale of 1:100: 12 characters
   for 1200, chunk_size 10 for 1000, chunk_overlap 1 for 100.  The paragraph
   is one unbroken word or words separated by spaces. *)
ExampleConfig ==
    IngestionConfig(chunk_size_default \div 100, chunk_overlap_default \div 100)

ExampleParagraphs ==
    {[i \in 1..12 |-> "a"], [i \in 1..12 |-> IF i % 4 = 0 THEN " " ELSE "a"]}

ExampleInputs ==
    {<<ElementWith("NarrativeText", p), TableElement(1, ChunkFile)>> :
        p \in ExampleParagraphs}

ChunkInputs ==
    {<<e>> : e \in ChunkElements}
    \cup {<<n, e>> : n \in Neighbours, e \in ChunkElements}
    \cup {<<e, n>> : n \in Neighbours, e \in ChunkElements}

ChunkInit ==
    /\ pc = "parsed"
    /\ \/ /\ \E cs \in 1..MaxWindow, co \in 0..MaxWindow :
                /\ config = IngestionConfig(cs, co)
                /\ text_splitter_init(config) = None
          /\ input \in ChunkInputs
       \/ /\ config = ExampleConfig
          /\ input \in ExampleInputs
    /\ bucket = [i \in {1} |-> MaxSize]
    /\ remote = EmptyFs
    /\ temp_dir = 1
    /\ temp_exists = TRUE
    /\ fs = [f \in {ChunkFile} |-> MaxSize]
    /\ artifact = [dir |-> FALSE, files |-> EmptyFs]
    /\ run_id = 1
    /\ attempts = 0
    /\ pdf_files = <<ChunkFile>>
    /\ valid_files = <<ChunkFile>>
    /\ chunks = <<>>
    /\ stats = [InitStats EXCEPT !.files_processed = 1]
    /\ pending = None
    /\ error = None
    /\ stages = <<"download", "validate">>
    /\ failed_stage = ""
    /\ cause = None
    /\ parser_called = FALSE
    /\ rmtree = "none"
    /\ now = 2
    /\ bucket_checks = <<>>
    /\ environ = NoEnviron
    /\ ApiIdle

(* chunks = self.process_documents(valid_files), the parser answering input *)
ProcessElements ==
    /\ pc = "parsed"
    /\ LET r == process_documents(valid_files, [raised |-> None, elements |-> input],
                                  config, now + 1)
       IN /\ chunks' = r.chunks
          /\ parser_called' = r.parser_called
          /\ stats' = [stats EXCEPT !.chunks_created = Len(r.chunks)]
    /\ stages' = Append(stages, "process")
    /\ now' = now + 1
    /\ pc' = "chunked"
    /\ UNCHANGED <<config, bucket, remote, temp_dir, temp_exists, fs, artifact, run_id,
                   attempts, pdf_files, valid_files, pending, error, failed_stage,
                   cause, rmtree, bucket_checks, environ, input, api_vars>>

(* The text lane's metadata rewrite applied once more to the chunks it has
   already rewritten *)
PropagateAgain ==
    /\ pc = "chunked"
    /\ chunks' = [i \in 1..Len(chunks) |->
                    IF chunks[i].metadata.content_type = "text"
                    THEN rewrite_text_chunk(chunks[i], config, now + 1)
                    ELSE chunks[i]]
    /\ now' = now + 1
    /\ pc' = "repropagated"
    /\ UNCHANGED <<config, bucket, remote, temp_dir, temp_exists, fs, artifact, run_id,
                   attempts, pdf_files, valid_files, stats, pending, error, stages,
                   failed_stage, cause, parser_called, rmtree, bucket_checks,
                   environ, input, api_vars>>

ChunkNext == ProcessElements \/ PropagateAgain

ChunkSpec == ChunkInit /\ [][ChunkNext]_vars

-----------------------------------------------------------------------------
(* ApiSpec: the FastAPI application of src/src/main.py.  Requests are
   answered one after another; each action is one request, from the
   resolution of the get_rag_system dependency to the response.  The
   dependency is the cached RAGSystem, or whatever app.dependency_overrides
   puts in its place (the tests' mock), which may answer or raise anything. *)

RAGError(m) == Exc("RAGError", m)

(* raise HTTPException(status_code=, detail=), as FastAPI answers it *)
HTTPException(code, detail) == [status_code |-> code, body |-> [detail |-> detail]]

(* A returned value, serialised with status 200 *)
Ok(data) == [status_code |-> 200, body |-> data]

(* The answer to a body that fails QueryRequest's validation (min_length=1) *)
Unprocessable == [status_code |-> 422, body |-> [detail |-> <<"String should have at least 1 character">>]]

(* An exception no handler caught, as the server answers it *)
Unhandled(e) == [status_code |-> 500, body |-> [unhandled |-> e.type]]

Returns(data) == [raised |-> None, data |-> data]

Raises(e) == [raised |-> e, data |-> [k \in {} |-> <<>>]]

ResponseData ==
    [answer |-> <<"an answer">>, source_documents |-> <<"Rank 1: a.pdf">>,
     retrieved_context |-> <<"text">>, stats |-> <<"success">>]

(* RAGSystem._validate_query: the stripped query, or RAGError for a blank one *)
validate_query(query_text) ==
    IF strip(query_text) = <<>> THEN Raises(RAGError(<<"Query text cannot be empty">>))
    ELSE Returns(strip(query_text))

(* RAGSystem.get_rag_response: chain is what retrieval_chain.invoke does, an
   answer or an exception; every exception that is not a RAGError is wrapped *)
get_rag_response(query_text, chain) ==
    IF validate_query(query_text).raised # None THEN validate_query(query_text)
    ELSE IF chain.raised # None
    THEN Raises(RAGError(<<"Unexpected error">> \o chain.raised.msg))
    ELSE Returns(ResponseData)

ChainAnswers == {Returns(ResponseData), Raises(Exc("APIError", <<"timeout">>))}

(* What an object put in place of the RAG system can do when called *)
OverrideAnswers ==
    {Returns(ResponseData),
     Returns([answer |-> <<"an answer">>, source_documents |-> <<>>]),
     Returns([source_documents |-> <<>>]),
     Raises(RAGError(<<"RAG processing failed">>)),
     Raises(Exc("ValueError", <<"bad value">>)),
     Raises(Exc("Exception", <<"Unexpected error">>))}

(* Mutant: no catch-all clause, so an exception that is neither RAGError nor
   ValueError leaves the handler *)
handle_query_no_catch_all(text, outcome) ==
    IF strip(text) = <<>>
    THEN [response |-> HTTPException(400, <<"Query text cannot be empty or whitespace only">>),
          calls |-> <<>>]
    ELSE LET e == IF outcome.raised # None THEN outcome.raised
                  ELSE IF {"answer", "source_documents"} \subseteq DOMAIN outcome.data
                  THEN None
                  ELSE Exc("KeyError", <<"answer">>)
             call == [method |-> "get_rag_response", raised |-> outcome.raised,
              data |-> outcome.data]
         IN [response |->
                 IF e = None
                 THEN Ok([answer |-> outcome.data["answer"],
                          source_documents |-> outcome.data["source_documents"],
                          retrieved_context |-> Get(outcome.data, "retrieved_context", <<>>),
                          stats |-> Get(outcome.data, "stats", <<>>)])
                 ELSE IF e.type \in {"RAGError", "ValueError"}
                 THEN HTTPException(400, e.msg)
                 ELSE Unhandled(e),
             calls |-> <<call>>]

(* handle_query: text is the validated request's text, outcome what
   rag_system.get_rag_response does if it is called.  Result: the response
   and the calls made. *)
handle_query(text, outcome) ==
    IF strip(text) = <<>>
    THEN [response |-> HTTPException(400, <<"Query text cannot be empty or whitespace only">>),
          calls |-> <<>>]
    ELSE LET e == IF outcome.raised # None THEN outcome.raised
                  ELSE IF {"answer", "source_documents"} \subseteq DOMAIN outcome.data
                  THEN None
                  ELSE Exc("KeyError", <<"answer">>)
             call == [method |-> "get_rag_response", raised |-> outcome.raised,
              data |-> outcome.data]
         IN [response |->
                 IF e = None
                 THEN Ok([answer |-> outcome.data["answer"],
                          source_documents |-> outcome.data["source_documents"],
                          retrieved_context |-> Get(outcome.data, "retrieved_context", <<>>),
                          stats |-> Get(outcome.data, "stats", <<>>)])
                 ELSE IF e.type \in {"RAGError", "ValueError"}
                 THEN HTTPException(400, e.msg)
                 ELSE HTTPException(500, <<"Internal server error">>),
             calls |-> <<call>>]

(* RAGSystem.health_check: vectors tells whether the loaded index holds any;
   its own try/except lets nothing out *)
RAGSystem_health_check(vectors) ==
    Returns([status |-> IF vectors THEN "healthy" ELSE "unhealthy"])

HealthOverrideAnswers ==
    {Returns([status |-> "healthy"]), Raises(Exc("Exception", <<"Health check failed">>))}

(* Mutant: a failing health check answered with an error status *)
health_check_error_status(outcome) ==
    [response |-> IF outcome.raised = None THEN Ok(outcome.data)
                  ELSE HTTPException(503, outcome.raised.msg),
     calls |-> <<[method |-> "health_check", raised |-> outcome.raised,
              data |-> outcome.data]>>]

(* The /health endpoint *)
health_check(outcome) ==
    [response |-> IF outcome.raised = None THEN Ok(outcome.data)
                  ELSE Ok([status |-> "unhealthy", error |-> outcome.raised.msg]),
     calls |-> <<[method |-> "health_check", raised |-> outcome.raised,
              data |-> outcome.data]>>]

SystemInfoAnswers ==
    {Returns([config |-> <<"config">>]), Raises(Exc("Exception", <<"no info">>))}

(* The /system-info endpoint *)
get_system_info(outcome) ==
    [response |-> IF outcome.raised = None THEN Ok(outcome.data)
                  ELSE HTTPException(500, <<"Failed to retrieve system information">>),
     calls |-> <<[method |-> "get_system_info", raised |-> outcome.raised,
              data |-> outcome.data]>>]

(* Depends(get_rag_system): an override is used as it is; otherwise the
   cached RAGSystem, constructed on first use (init: whether RAGSystem()
   succeeds).  lru_cache keeps no result when the function raises. *)
get_rag_system(cached, init) ==
    IF cached # "none" THEN cached
    ELSE IF init THEN "RAGSystem"
    ELSE "none"

InitFailed == HTTPException(503, <<"RAG system initialization failed">>)

QueryTexts == SeqsUpTo({"a", " "}, MaxQueryLen)

ApiInit ==
    /\ pc = "serving"
    /\ rag_system \in {"none", "override"}
    /\ request = NoRequest
    /\ response = NoResponse
    /\ rag_calls = <<>>
    /\ config = NoConfig
    /\ bucket = EmptyFs
    /\ remote = EmptyFs
    /\ temp_dir = 0
    /\ temp_exists = FALSE
    /\ fs = EmptyFs
    /\ artifact = [dir |-> FALSE, files |-> EmptyFs]
    /\ run_id = 0
    /\ attempts = 0
    /\ pdf_files = <<>>
    /\ valid_files = <<>>
    /\ chunks = <<>>
    /\ stats = InitStats
    /\ pending = None
    /\ error = None
    /\ stages = <<>>
    /\ failed_stage = ""
    /\ cause = None
    /\ parser_called = FALSE
    /\ rmtree = "none"
    /\ now = 0
    /\ bucket_checks = <<>>
    /\ environ = NoEnviron
    /\ input = <<>>

(* POST /query with a JSON body {"text": text} *)
PostQuery ==
    /\ pc = "serving"
    /\ \E text \in QueryTexts, init \in BOOLEAN :
          LET dep == get_rag_system(rag_system, init)
          IN /\ request' = [endpoint |-> "query", text |-> text]
             /\ rag_system' = dep
             /\ IF dep = "none"
                THEN response' = InitFailed /\ rag_calls' = <<>>
                ELSE IF Len(text) < 1
                THEN response' = Unprocessable /\ rag_calls' = <<>>
                ELSE \E outcome \in IF dep = "override" THEN OverrideAnswers
                                    ELSE {get_rag_response(text, c) : c \in ChainAnswers} :
                        LET r == handle_query(text, outcome)
                        IN response' = r.response /\ rag_calls' = r.calls
    /\ UNCHANGED <<pipeline_vars, environ, input>>

(* GET /health *)
GetHealth ==
    /\ pc = "serving"
    /\ \E init \in BOOLEAN :
          LET dep == get_rag_system(rag_system, init)
          IN /\ request' = [endpoint |-> "health", text |-> <<>>]
             /\ rag_system' = dep
             /\ IF dep = "none"
                THEN response' = InitFailed /\ rag_calls' = <<>>
                ELSE \E outcome \in IF dep = "override" THEN HealthOverrideAnswers
                                    ELSE {RAGSystem_health_check(v) : v \in BOOLEAN} :
                        LET r == health_check(outcome)
                        IN response' = r.response /\ rag_calls' = r.calls
    /\ UNCHANGED <<pipeline_vars, environ, input>>

(* GET /system-info *)
GetSystemInfo ==
    /\ pc = "serving"
    /\ \E init \in BOOLEAN :
          LET dep == get_rag_system(rag_system, init)
          IN /\ request' = [endpoint |-> "system-info", text |-> <<>>]
             /\ rag_system' = dep
             /\ IF dep = "none"
                THEN response' = InitFailed /\ rag_calls' = <<>>
                ELSE \E outcome \in IF dep = "override" THEN SystemInfoAnswers
                                    ELSE {Returns([config |-> <<"config">>])} :
                        LET r == get_system_info(outcome)
                        IN response' = r.response /\ rag_calls' = r.calls
    /\ UNCHANGED <<pipeline_vars, environ, input>>

ApiNext == PostQuery \/ GetHealth \/ GetSystemInfo

ApiSpec == ApiInit /\ [][ApiNext]_vars

-----------------------------------------------------------------------------
(* LoaderSpec: RAGSystem.__init__ up to the vector store, the reading side of
   what the ingestion writes.  The configuration is the one passed in or the
   one read from the environment; the store is then fetched from the bucket
   into a fresh temporary directory.  remote is the content of the bucket
   the loader opens. *)

RAGConfig(project_id, vector_store_bucket, vector_store_blob, use_gcs_vector_store) ==
    [project_id |-> project_id, vector_store_bucket |-> vector_store_bucket,
     vector_store_blob |-> vector_store_blob,
     use_gcs_vector_store |-> use_gcs_vector_store]

(* RAGSystem._load_config: Unset stands for None *)
load_config(e) ==
    LET project_id == getenv(e, "GCP_PROJECT_ID", Unset)
        use_gcs == lower(getenv(e, "USE_GCS_VECTOR_STORE", "False")) \in {"true", "1", "yes"}
        vector_store_bucket == getenv(e, "VECTOR_STORE_BUCKET", Unset)
    IN IF project_id \in {Unset, ""}
       THEN [raised |-> Exc("ValueError",
                            <<"GCP_PROJECT_ID environment variable is required">>),
             config |-> NoConfig]
       ELSE [raised |-> None,
             config |-> RAGConfig(project_id,
                                  IF use_gcs /\ vector_store_bucket \in {Unset, ""}
                                  THEN project_id \o "-vector-stores"
                                  ELSE vector_store_bucket,
                                  getenv(e, "VECTOR_STORE_BLOB", "faiss_index"),
                                  use_gcs)]

(* self.config = config or self._load_config(): given is <<>> or <<config>> *)
rag_system_config(given, e) ==
    IF given # <<>> THEN [raised |-> None, config |-> given[1]] ELSE load_config(e)

(* The bucket and the objects upload_to_gcs(local_path, "faiss_index") of a
   pipeline configured with c writes *)
upload_targets(c) ==
    {[bucket |-> c.vector_store_bucket, name |-> BlobPath("faiss_index", FaissFiles[i])] :
        i \in 1..Len(FaissFiles)}

(* The loop over faiss_files from position i on: r is the bucket's content,
   failAt the position whose download_to_filename raises e; calls are the
   blobs asked for, files what has arrived in the temporary directory *)
RECURSIVE fetch_loop(_, _, _, _, _, _, _)
fetch_loop(cfg, r, i, failAt, e, calls, files) ==
    IF i > Len(FaissFiles) THEN [raised |-> None, calls |-> calls, files |-> files]
    ELSE LET blob_name == BlobPath(cfg.vector_store_blob, FaissFiles[i])
             asked == Append(calls, [bucket |-> cfg.vector_store_bucket,
                                     name |-> blob_name])
         IN IF blob_name \notin DOMAIN r
            THEN [raised |-> RAGError(<<"FAISS file not found in GCS">>),
                  calls |-> asked, files |-> files]
            ELSE IF i = failAt
            THEN [raised |-> e, calls |-> asked, files |-> files]
            ELSE fetch_loop(cfg, r, i + 1, failAt, e, asked,
                            Put(files, FaissFiles[i], r[blob_name]))

(* The try block: the storage client, the two downloads, FAISS.load_local *)
fetch_and_load(cfg, r, clientErr, failAt, e, loadErr) ==
    IF clientErr # None
    THEN [raised |-> clientErr, calls |-> <<>>, files |-> EmptyFs]
    ELSE LET f == fetch_loop(cfg, r, 1, failAt, e, <<>>, EmptyFs)
         IN IF f.raised # None THEN f
            ELSE [f EXCEPT !.raised = loadErr]

(* RAGSystem._load_vector_store_from_gcs: the bucket check before anything
   is created, the try block with every exception wrapped, and the finally
   clause, whose shutil.rmtree (rm: "ok" or "failed") is not guarded: an
   exception it raises replaces the outcome of the try block *)
load_vector_store_from_gcs(cfg, r, clientErr, failAt, e, loadErr, rm) ==
    IF cfg.vector_store_bucket \in {Unset, ""}
    THEN [raised |-> RAGError(<<"Vector store bucket not configured for GCS loading">>),
          calls |-> <<>>, files |-> EmptyFs, temp_created |-> FALSE,
          temp_exists |-> FALSE, client |-> FALSE]
    ELSE LET body == fetch_and_load(cfg, r, clientErr, failAt, e, loadErr)
             wrapped == IF body.raised = None THEN None
                        ELSE RAGError(<<"GCS vector store loading failed">>
                                      \o body.raised.msg)
         IN [raised |-> IF rm = "ok" THEN wrapped
                        ELSE Exc("OSError", <<"Directory not empty">>),
             calls |-> body.calls,
             files |-> IF rm = "ok" THEN EmptyFs ELSE body.files,
             temp_created |-> TRUE,
             temp_exists |-> rm # "ok",
             client |-> TRUE]

LoaderErrors ==
    {Exc("Exception", <<"GCS connection failed">>), Exc("OSError", <<"Permission denied">>)}

(* A configuration given to the constructor, as the tests give one *)
GivenConfigs ==
    {RAGConfig("proj", Unset, "faiss_index", TRUE),
     RAGConfig("proj", "test-bucket", "faiss_index", TRUE)}

LoaderInit ==
    /\ pc = "rag_new"
    /\ \E dom \in SUBSET {"GCP_PROJECT_ID", "ENVIRONMENT", "USE_GCS_VECTOR_STORE",
                          "VECTOR_STORE_BUCKET", "VECTOR_STORE_BLOB"} :
          /\ environ \in [dom -> {"", "proj", "prod", "true", "True", "0", "custom"}]
          /\ "GCP_PROJECT_ID" \in dom => environ["GCP_PROJECT_ID"] = "proj"
          /\ "ENVIRONMENT" \in dom => environ["ENVIRONMENT"] = "prod"
          /\ "USE_GCS_VECTOR_STORE" \in dom =>
                 environ["USE_GCS_VECTOR_STORE"] \in {"true", "True", "0"}
          /\ "VECTOR_STORE_BUCKET" \in dom =>
                 environ["VECTOR_STORE_BUCKET"] \in {"", "custom"}
          /\ "VECTOR_STORE_BLOB" \in dom => environ["VECTOR_STORE_BLOB"] = "custom"
    /\ input \in {<<>>} \cup {<<g>> : g \in GivenConfigs}
    /\ \E present \in SUBSET (1..Len(FaissFiles)) :
          remote = [p \in {BlobPath("faiss_index", FaissFiles[i]) : i \in present}
                        |-> 1]
    /\ config = NoConfig
    /\ bucket = EmptyFs
    /\ temp_dir = 0
    /\ temp_exists = FALSE
    /\ fs = EmptyFs
    /\ artifact = [dir |-> FALSE, files |-> EmptyFs]
    /\ run_id = 0
    /\ attempts = 0
    /\ pdf_files = <<>>
    /\ valid_files = <<>>
    /\ chunks = <<>>
    /\ stats = InitStats
    /\ pending = None
    /\ error = None
    /\ stages = <<>>
    /\ failed_stage = ""
    /\ cause = None
    /\ parser_called = FALSE
    /\ rmtree = "none"
    /\ now = 0
    /\ bucket_checks = <<>>
    /\ ApiIdle

(* RAGSystem.__init__, its first line *)
RAGSystemConfig ==
    /\ pc = "rag_new"
    /\ LET r == rag_system_config(input, environ)
       IN /\ error' = r.raised
          /\ config' = r.config
          /\ pc' = IF r.raised = None THEN "rag_configured" ELSE "rag_config_error"
    /\ UNCHANGED <<bucket, remote, temp_dir, temp_exists, fs, artifact, run_id,
                   attempts, pdf_files, valid_files, chunks, stats, pending,
                   stages, failed_stage, cause, parser_called, rmtree, now,
                   bucket_checks, environ, input, api_vars>>

(* self.db = self._load_vector_store_from_gcs(), as _load_vector_store calls
   it when use_gcs_vector_store is set *)
LoadVectorStoreFromGcs ==
    /\ pc = "rag_configured"
    /\ config.use_gcs_vector_store
    /\ \E clientErr \in {None} \cup LoaderErrors, failAt \in 0..Len(FaissFiles),
          loadErr \in {None, Exc("RuntimeError", <<"could not read index">>)},
          rm \in {"ok", "failed"} :
          LET r == load_vector_store_from_gcs(config, remote, clientErr, failAt,
                                              Exc("OSError", <<"Permission denied">>),
                                              loadErr, rm)
          IN /\ error' = r.raised
             /\ pc' = IF r.raised = None THEN "rag_loaded" ELSE "rag_load_raised"
             /\ rag_system' = IF r.raised = None THEN "RAGSystem" ELSE "none"
             /\ rag_calls' = r.calls
             /\ fs' = r.files
             /\ temp_dir' = IF r.temp_created THEN 1 ELSE 0
             /\ temp_exists' = r.temp_exists
             /\ rmtree' = IF r.temp_created THEN rm ELSE "none"
    /\ UNCHANGED <<config, bucket, remote, artifact, run_id, attempts, pdf_files,
                   valid_files, chunks, stats, pending, stages, failed_stage, cause,
                   parser_called, now, bucket_checks, environ, input, request,
                   response>>

LoaderNext == RAGSystemConfig \/ LoadVectorStoreFromGcs

LoaderSpec == LoaderInit /\ [][LoaderNext]_vars

-----------------------------------------------------------------------------
(* Properties *)

InStages(x) == \E i \in 1..Len(stages) : stages[i] = x

Terminal == pc \in {"returned", "raised"}

StageOrder == <<"download", "validate", "process", "build", "upload">>

IsPrefix(p, q) == Len(p) <= Len(q) /\ SubSeq(q, 1, Len(p)) = p

(* Both required files exist in the index directory and are non-empty *)
ArtifactValid(a) ==
    /\ a.dir
    /\ \A i \in 1..Len(FaissFiles) :
          FaissFiles[i] \in DOMAIN a.files /\ a.files[FaissFiles[i]] > 0

(* Both remote objects were written by the current run *)
RemoteFresh ==
    \A i \in 1..Len(FaissFiles) :
       /\ BlobPath("faiss_index", FaissFiles[i]) \in DOMAIN remote
       /\ remote[BlobPath("faiss_index", FaissFiles[i])] = "this_run"

(* The names of the bucket's PDF objects, in listing order *)
PdfNames(b) ==
    LET blobs == SelectSeq(list_blobs(b), is_pdf)
    IN [i \in 1..Len(blobs) |-> blobs[i].name]

FileNames == {BlobNames[i].name : i \in 1..Len(BlobNames)}

NoValidFiles == IngestionError(<<"No valid PDF files to process">>)

(* C1: when every stage up to the index build succeeded and upload_to_gcs
   raised, run() returns normally: nothing is left to propagate, and stats
   has success = True, upload_failed = True and the error text in
   upload_error *)
C1_UploadFailureIsDegradedSuccess ==
    (failed_stage = "upload" /\ pc \in {"cleanup", "returned", "raised"}) =>
        /\ pending = None
        /\ pc # "raised"
        /\ stats.success = TRUE
        /\ Get(stats, "upload_failed", FALSE) = TRUE
        /\ Get(stats, "upload_error", <<>>) # <<>>

C1_Witness ==
    /\ pc = "returned"
    /\ failed_stage = "upload"
    /\ stats.success
    /\ Get(stats, "upload_failed", FALSE) = TRUE

(* C2 as claimed: once run() has returned or raised, the scratch directory of
   that run does not exist *)
C2_ScratchRemovedOnEveryExit == Terminal => ~temp_exists

(* C2 amended: on every exit path of run() the removal of the scratch
   directory has been attempted; the directory still exists afterwards exactly
   when rmtree failed, and that failure changes nothing in how run() ends (a
   return stays a return of a successful stats record, a raise stays a raise
   of the pending exception) *)
C2_ScratchRemovalAttemptedOnEveryExit ==
    Terminal =>
        /\ rmtree \in {"ok", "failed"}
        /\ temp_exists <=> (rmtree = "failed")
        /\ pc = "returned" => (pending = None /\ stats.success)
        /\ pc = "raised" => (pending # None /\ error = pending)

C2_Witness == pc = "raised" /\ rmtree = "ok" /\ ~temp_exists

(* C3: the stages a run has entered are always an initial part of download,
   validate, process, build, upload (so none is entered twice or out of
   order); a stage is entered only when its predecessor has ended without an
   exception and over its whole input (every PDF object downloaded, every
   downloaded path validated, every chunk counted); and once a stage other
   than the upload has raised, it stays the last stage of the run *)
C3_StagesInOrder ==
    /\ IsPrefix(stages, StageOrder)
    /\ pc = "download" => stages = <<>>
    /\ pc \in {"validate", "process", "build", "upload"} =>
          /\ pending = None
          /\ failed_stage = ""
          /\ StageOrder[Len(stages) + 1] = pc
          /\ pdf_files = PdfNames(bucket)
    /\ pc \in {"process", "build", "upload"} =>
          valid_files = validate_pdf_files(pdf_files, fs)
    /\ pc \in {"build", "upload"} => stats.chunks_created = Len(chunks)
    /\ (pending # None \/ failed_stage \notin {"", "upload"}) =>
          /\ pc \in {"cleanup", "raised"}
          /\ stages # <<>>
          /\ stages[Len(stages)] = failed_stage

C3_Witness == pc = "returned" /\ stages = StageOrder

(* C4: whenever a run has called upload_to_gcs or has set success = True, the
   index directory exists and index.faiss and index.pkl both exist in it and
   are non-empty *)
C4_OnlyValidArtifactIsUploadedOrSuccess ==
    (InStages("upload") \/ stats.success) => ArtifactValid(artifact)

C4_Witness ==
    /\ pc = "returned"
    /\ stats.success
    /\ InStages("upload")
    /\ artifact.dir

(* C5 as claimed: a stage that ended with a transient storage error in
   download_from_gcs or upload_to_gcs was attempted more than once *)
C5_TransientErrorIsRetried ==
    (/\ failed_stage \in {"download", "upload"}
     /\ if_transient_error(cause)
     /\ pc \in {"cleanup", "returned", "raised"}) => attempts > 1

(* C6: a run that returns without upload_failed has written both remote
   objects itself, from an artifact whose two files exist and are non-empty;
   a run that wrote only one of them returns with upload_failed = True *)
C6_NoSilentPartialUpload ==
    pc = "returned" =>
        \/ Get(stats, "upload_failed", FALSE) = TRUE
        \/ (RemoteFresh /\ ArtifactValid(artifact))

C6_Witness ==
    /\ pc = "returned"
    /\ run_id > 1
    /\ "upload_failed" \notin DOMAIN stats
    /\ RemoteFresh

(* C7: when the listing of the raw-docs bucket succeeds and the bucket holds
   nothing, download_from_gcs returns the empty list, and the run ends by
   raising IngestionError "No valid PDF files to process" out of
   process_documents, with the parser never called, no index built and
   nothing uploaded *)
C7_EmptyBucketFailsWithNoValidFiles ==
    (DOMAIN bucket = {} /\ InStages("download") /\ failed_stage # "download") =>
        /\ pdf_files = <<>>
        /\ ~parser_called
        /\ ~InStages("build")
        /\ ~InStages("upload")
        /\ pc \in {"validate", "process", "cleanup", "raised"}
        /\ pc \in {"cleanup", "raised"} => pending = NoValidFiles
        /\ pc = "raised" => error = NoValidFiles

C7_Witness ==
    /\ pc = "raised"
    /\ DOMAIN bucket = {}
    /\ stages = <<"download", "validate", "process">>
    /\ error = NoValidFiles

(* C8: validate_pdf_files returns the paths of its input that exist with a
   non-zero size, in input order, for every list of paths and every state of
   the directory; validation never raises, whatever it drops; and a run whose
   validation kept no file never builds an index and ends by raising *)
C8_ValidateKeepsExistingNonEmptyFiles ==
    /\ pc = "validate" =>
          \A paths \in SeqsUpTo(FileNames, MaxPaths) :
             \A f \in UNION {[d -> 0..MaxSize] : d \in SUBSET FileNames} :
                validate_pdf_files(paths, f)
                   = SelectSeq(paths, LAMBDA p : p \in DOMAIN f /\ f[p] > 0)
    /\ pc \in {"process", "build", "upload"} =>
          valid_files = SelectSeq(pdf_files, LAMBDA p : p \in DOMAIN fs /\ fs[p] > 0)
    /\ pc = "process" => (pending = None /\ failed_stage = "")
    /\ (InStages("validate") /\ valid_files = <<>>) =>
          /\ ~InStages("build")
          /\ ~stats.success
          /\ Terminal => pc = "raised"

C8_Witness ==
    /\ pc = "raised"
    /\ pdf_files # <<>>
    /\ valid_files = <<>>
    /\ InStages("validate")

(* C9: when save_local has left the index directory with index.faiss or
   index.pkl missing or empty, create_vector_store raises IngestionError, the
   run fails, and upload_to_gcs is not called in it *)
C9_InvalidArtifactIsFatal ==
    (InStages("build") /\ artifact.dir /\ ~ArtifactValid(artifact)) =>
        /\ pc \in {"cleanup", "raised"}
        /\ failed_stage = "build"
        /\ pending.type = "IngestionError"
        /\ ~InStages("upload")
        /\ ~stats.success

C9_Witness ==
    /\ pc = "raised"
    /\ error.type = "IngestionError"
    /\ artifact.dir
    /\ DOMAIN artifact.files = {"index.faiss", "index.pkl"}
    /\ artifact.files["index.faiss"] > 0
    /\ artifact.files["index.pkl"] = 0

(* C10 as claimed: with chunk_size <= 0 or chunk_overlap >= chunk_size the
   pipeline is never constructed, so no run proceeds *)
C10_BadChunkingNeverConstructed ==
    (config.chunk_size <= 0 \/ config.chunk_overlap >= config.chunk_size) =>
        pc \in {"new", "construct_failed"}

(* C10 amended: with chunk_size <= 0 or chunk_overlap > chunk_size the
   construction of the pipeline fails, before the buckets are checked (the
   error is not the bucket check's IngestionError), and no run starts;
   chunk_overlap = chunk_size is accepted *)
C10_RejectedChunkingNeverConstructed ==
    (config.chunk_size <= 0 \/ config.chunk_overlap > config.chunk_size) =>
        /\ pc \in {"new", "construct_failed"}
        /\ run_id = 0
        /\ pc = "construct_failed" => error.type \in {"ClientError", "ValueError"}

C10_Witness ==
    /\ pc = "construct_failed"
    /\ config.chunk_size > 0
    /\ config.chunk_overlap > config.chunk_size
    /\ error.type = "ValueError"

(* Both buckets were asked about once each, in the constructor's order, and
   both exist *)
BothBucketsChecked ==
    bucket_checks = <<[bucket |-> config.raw_docs_bucket, exists |-> TRUE],
                      [bucket |-> config.vector_store_bucket, exists |-> TRUE]>>

(* C11: the buckets are asked about only by the construction of the pipeline
   and each at most once, later runs not asking again; anything listed,
   downloaded or uploaded, and any run at all, comes after both buckets were
   found to exist; and a bucket found missing makes the construction raise
   IngestionError, after which no run starts and nothing is transferred *)
C11_BucketsCheckedOnceBeforeAnyTransfer ==
    /\ pc = "new" => bucket_checks = <<>>
    /\ Len(bucket_checks) <= 2
    /\ \A i, j \in 1..Len(bucket_checks) :
          bucket_checks[i].bucket = bucket_checks[j].bucket => i = j
    /\ (run_id > 0 \/ stages # <<>> \/ fs # EmptyFs \/ remote # EmptyFs
            \/ pc \notin {"new", "construct_failed"}) => BothBucketsChecked
    /\ (\E i \in 1..Len(bucket_checks) : ~bucket_checks[i].exists) =>
          /\ pc = "construct_failed"
          /\ error.type = "IngestionError"
          /\ run_id = 0
          /\ stages = <<>>
          /\ fs = EmptyFs
          /\ remote = EmptyFs

C11_Witness ==
    /\ pc = "construct_failed"
    /\ error.type = "IngestionError"
    /\ Len(bucket_checks) = 2
    /\ bucket_checks[1].exists
    /\ ~bucket_checks[2].exists

(* The messages create_vector_store's own validation raises with *)
ArtifactComplaints ==
    {<<"FAISS index directory was not created">>}
    \cup {<<"Required FAISS file not found", FaissFiles[i]>> : i \in 1..Len(FaissFiles)}
    \cup {<<"FAISS file is empty", FaissFiles[i]>> : i \in 1..Len(FaissFiles)}

(* C12: an exception on its way out of run(), and the exception run() has
   raised, is always an IngestionError; it comes from the download, the
   processing or the index build (validation raises nothing, an upload
   failure is not fatal), and its message is the stage's own text followed by
   the message of the underlying cause: the storage error for the download,
   the parser's error for the processing, the embedding error or the
   artifact validation's complaint for the build *)
C12_FatalFailureIsIngestionError ==
    /\ pending # None =>
          /\ pending.type = "IngestionError"
          /\ pc \in {"cleanup", "raised"}
    /\ pc = "raised" =>
          /\ error.type = "IngestionError"
          /\ error = pending
          /\ failed_stage \in {"download", "process", "build"}
          /\ failed_stage = "download" =>
                error.msg = <<"GCS download failed">> \o cause.msg
          /\ failed_stage = "process" =>
                \/ error = NoValidFiles
                \/ error.msg = <<"Document processing failed">> \o ParserError.msg
          /\ failed_stage = "build" =>
                \/ error.msg = <<"No chunks provided for vector store creation">>
                \/ /\ Head(error.msg) = "Vector store creation failed"
                   /\ Tail(error.msg) \in {EmbeddingError.msg} \cup ArtifactComplaints

C12_Witness ==
    /\ pc = "raised"
    /\ failed_stage = "download"
    /\ cause = Forbidden
    /\ error = IngestionError(<<"GCS download failed", "403">>)

(* C13: a run ends in one of two ways.  It returns stats, and then success
   is True (upload_failed possibly set with it) and nothing was raised; or it
   raises, and then success is still False and the stats record stays inside
   run().  Either way processing_time was set in that run, to the time
   elapsed since its start, which covers every stage the run entered.  The
   success flag is never True in a run that raises, and is never False in
   stats that are returned. *)
C13_EveryExitSetsProcessingTime ==
    /\ pc = "returned" =>
          /\ stats.success
          /\ pending = None
          /\ error = None
    /\ pc = "raised" =>
          /\ ~stats.success
          /\ error # None
          /\ "upload_failed" \notin DOMAIN stats
    /\ Terminal =>
          /\ stats.processing_time > 0
          /\ stats.processing_time >= Len(stages)
          /\ stats.processing_time <= now
    /\ stats.success => pc \in {"cleanup", "returned"}

C13_Witness ==
    /\ pc = "raised"
    /\ failed_stage = "build"
    /\ ~stats.success
    /\ stats.processing_time = now
    /\ stats.processing_time > Len(stages)

-----------------------------------------------------------------------------
(* Properties of process_documents, stated over ChunkSpec *)

IsTable(e) == Get(e.metadata, "category", "None") = "Table"

IsText(e) == Get(e.metadata, "category", "None") \in {"Title", "NarrativeText", "ListItem"}

Html(e) == Get(e.metadata, "text_as_html", <<>>)

(* The Table elements of the parser's answer that have HTML, in order *)
TablesWithHtml == SelectSeq(input, LAMBDA e : IsTable(e) /\ Html(e) # <<>>)

TableChunks == SelectSeq(chunks, LAMBDA ch : ch.metadata.content_type = "table")

TextChunks == SelectSeq(chunks, LAMBDA ch : ch.metadata.content_type = "text")

(* C14: the table chunks process_documents emits are, in order, one for each
   Table element with non-empty text_as_html, its content the whole HTML
   whatever chunk_size is; a Table element without HTML contributes no chunk
   (none of content_type table and, being no text element, none at all) *)
C14_TableIsOneUnsplitChunk ==
    pc = "chunked" =>
        /\ Len(TableChunks) = Len(TablesWithHtml)
        /\ \A i \in 1..Len(TableChunks) :
              /\ TableChunks[i].page_content = Html(TablesWithHtml[i])
              /\ TableChunks[i].metadata.content_type = "table"
        /\ (\A i \in 1..Len(input) : IsTable(input[i]) /\ Html(input[i]) = <<>>) =>
              chunks = <<>>

C14_Witness ==
    /\ pc = "chunked"
    /\ Len(input) = 1
    /\ Len(chunks) = 1
    /\ chunks[1].metadata.content_type = "table"
    /\ Len(chunks[1].page_content) > config.chunk_size

(* C15 as claimed: the source of every chunk process_documents emits is
   gs://<raw-docs-bucket>/<name of the file> *)
C15_EveryChunkSourceIsGcsUri ==
    \A i \in 1..Len(chunks) :
       chunks[i].metadata.source = GcsUri(config.raw_docs_bucket, ChunkFile)

(* C16: applying the text lane's rewrite to the chunks it has already
   rewritten leaves the source of every chunk as it was, the
   gs://<raw-docs-bucket>/<name of the file> of the first application *)
C16_SourceRewriteIsIdempotent ==
    [][(pc = "chunked" /\ pc' = "repropagated") =>
          /\ Len(chunks') = Len(chunks)
          /\ \A i \in 1..Len(chunks) :
                /\ chunks'[i].metadata.source = chunks[i].metadata.source
                /\ chunks[i].metadata.content_type = "text" =>
                      chunks'[i].metadata.source
                         = GcsUri(config.raw_docs_bucket, ChunkFile)]_vars

C16_Witness ==
    /\ pc = "repropagated"
    /\ Len(chunks) > 1
    /\ chunks[1].metadata.content_type = "text"
    /\ chunks[1].metadata.source = GcsUri(config.raw_docs_bucket, ChunkFile)
    /\ chunks[1].metadata.ingestion_timestamp = now

(* docs[i..] can be appended to acc, each after dropping a prefix of at most
   co characters that repeats the end of acc, so that target results *)
RECURSIVE Rebuilds(_, _, _, _, _)
Rebuilds(docs, i, acc, target, co) ==
    IF i > Len(docs) THEN acc = target
    ELSE \E k \in 0..Min({Len(docs[i]), Len(acc), co}) :
            /\ SubSeq(acc, Len(acc) - k + 1, Len(acc)) = SubSeq(docs[i], 1, k)
            /\ Rebuilds(docs, i + 1, acc \o SubSeq(docs[i], k + 1, Len(docs[i])),
                        target, co)

NoWhitespace(t) == SelectSeq(t, LAMBDA ch : ch \notin Whitespace)

(* The parser answered with one text element *)
OneTextElement == Len(input) = 1 /\ IsText(input[1])

(* C17 as claimed: the chunks of a text element, overlaps removed, give back
   the element's text *)
C17_ChunksReconstructText ==
    (pc = "chunked" /\ OneTextElement) =>
        Rebuilds([i \in 1..Len(chunks) |-> chunks[i].page_content], 1, <<>>,
                 input[1].page_content, config.chunk_overlap)

(* C17 amended: the chunks of a text element, overlaps removed, give back the
   element's text up to whitespace (the same characters in the same order
   once whitespace is taken out of the chunks and of the text), and give it
   back exactly when the text holds no whitespace *)
C17_ChunksReconstructTextUpToWhitespace ==
    (pc = "chunked" /\ OneTextElement) =>
        /\ Rebuilds([i \in 1..Len(chunks) |-> NoWhitespace(chunks[i].page_content)],
                    1, <<>>, NoWhitespace(input[1].page_content), config.chunk_overlap)
        /\ NoWhitespace(input[1].page_content) = input[1].page_content =>
              Rebuilds([i \in 1..Len(chunks) |-> chunks[i].page_content], 1, <<>>,
                       input[1].page_content, config.chunk_overlap)

C17_Witness ==
    /\ pc = "chunked"
    /\ OneTextElement
    /\ input[1].page_content = <<"a", " ", "b">>
    /\ Len(chunks) = 2
    /\ chunks[1].page_content = <<"a">>
    /\ chunks[2].page_content = <<"b">>

-----------------------------------------------------------------------------
(* Properties of run_ingestion, stated over EntrySpec *)

(* C18: when GCP_PROJECT_ID is not set or is empty, run_ingestion ends by
   raising ValueError with no configuration built, no pipeline constructed,
   no bucket asked about and nothing listed, downloaded or uploaded *)
C18_MissingProjectIdFailsBeforeAnyIO ==
    (getenv(environ, "GCP_PROJECT_ID", Unset) \in {Unset, ""} /\ pc # "entry") =>
        /\ pc = "config_error"
        /\ error.type = "ValueError"
        /\ config = NoConfig
        /\ bucket_checks = <<>>
        /\ run_id = 0
        /\ stages = <<>>
        /\ fs = EmptyFs
        /\ remote = EmptyFs

C18_Witness ==
    /\ pc = "config_error"
    /\ "GCP_PROJECT_ID" \in DOMAIN environ
    /\ environ["GCP_PROJECT_ID"] = ""
    /\ error.type = "ValueError"

-----------------------------------------------------------------------------
(* Properties of the HTTP handlers, stated over ApiSpec *)

(* The request named was answered by its handler: the dependency resolved
   (a failed RAGSystem() is answered 503 before the handler runs) *)
Handled(endpoint) ==
    /\ request.endpoint = endpoint
    /\ response # NoResponse
    /\ response # InitFailed

WhitespaceOnly == HTTPException(400, <<"Query text cannot be empty or whitespace only">>)

(* C19: for a POST /query whose body passed validation, a text of whitespace
   only is answered 400 with the RAG system not called; otherwise
   get_rag_response is called once, and a RAGError or ValueError it raises is
   answered 400 with the error's text as detail, any other exception 500
   with detail "Internal server error", and a result holding answer and
   source_documents 200 with that answer; the response is always one of
   these, never an exception that left the handler *)
C19_QueryOutcomesMappedToStatus ==
    (Handled("query") /\ request.text # <<>>) =>
        /\ response.status_code \in {200, 400, 500}
        /\ "unhandled" \notin DOMAIN response.body
        /\ strip(request.text) = <<>> =>
              /\ response = WhitespaceOnly
              /\ rag_calls = <<>>
        /\ strip(request.text) # <<>> =>
              /\ Len(rag_calls) = 1
              /\ rag_calls[1].method = "get_rag_response"
              /\ LET e == rag_calls[1].raised
                     data == rag_calls[1].data
                 IN /\ (e # None /\ e.type \in {"RAGError", "ValueError"}) =>
                          response = HTTPException(400, e.msg)
                    /\ (e # None /\ e.type \notin {"RAGError", "ValueError"}) =>
                          response = HTTPException(500, <<"Internal server error">>)
                    /\ (e = None /\ {"answer", "source_documents"} \subseteq DOMAIN data) =>
                          /\ response.status_code = 200
                          /\ response.body.answer = data.answer
                          /\ response.body.source_documents = data.source_documents

C19_Witness ==
    /\ Handled("query")
    /\ Len(rag_calls) = 1
    /\ rag_calls[1].raised = Exc("Exception", <<"Unexpected error">>)
    /\ response = HTTPException(500, <<"Internal server error">>)

(* C20: a GET /health whose dependency resolved is answered 200 whatever
   rag_system.health_check does: its result as it is when it returns, and a
   body with status "unhealthy" and the error's text when it raises *)
C20_HealthAlwaysAnswers200 ==
    Handled("health") =>
        /\ response.status_code = 200
        /\ Len(rag_calls) = 1
        /\ rag_calls[1].method = "health_check"
        /\ rag_calls[1].raised = None => response.body = rag_calls[1].data
        /\ rag_calls[1].raised # None =>
              response.body = [status |-> "unhealthy", error |-> rag_calls[1].raised.msg]

C20_Witness ==
    /\ Handled("health")
    /\ response.status_code = 200
    /\ rag_calls[1].raised = Exc("Exception", <<"Health check failed">>)
    /\ response.body.status = "unhealthy"
    /\ response.body.error = <<"Health check failed">>
-----------------------------------------------------------------------------
(* LoaderSpec *)

Mentions(e, text) == \E i \in 1..Len(e.msg) : e.msg[i] = text

LoaderDone == pc \in {"rag_loaded", "rag_load_raised"}

BucketConfigured == config.vector_store_bucket \notin {Unset, ""}

(* C21: _load_vector_store_from_gcs raises RAGError in every failure case:
   'Vector store bucket not configured' before any storage client or
   temporary directory exists when no bucket is set, a RAGError mentioning
   'FAISS file not found in GCS' when an index file is missing remotely,
   'GCS vector store loading failed' for any other exception; and a
   temporary directory that was created is gone on return, on the success
   path and on the failure path. *)
C21_LoaderRaisesRAGErrorAndRemovesTemp ==
    LoaderDone =>
        /\ error # None => error.type = "RAGError"
        /\ ~BucketConfigured =>
               /\ error = RAGError(<<"Vector store bucket not configured for GCS loading">>)
               /\ temp_dir = 0
               /\ rag_calls = <<>>
        /\ (error # None /\ BucketConfigured) =>
               error.msg[1] = "GCS vector store loading failed"
        /\ (rag_calls # <<>> /\ rag_calls[Len(rag_calls)].name \notin DOMAIN remote) =>
               error # None /\ Mentions(error, "FAISS file not found in GCS")
        /\ temp_dir # 0 => ~temp_exists

(* The loader's outcome when shutil.rmtree does its work *)
LoaderWhenRmtreeSucceeds == rmtree = "failed" \/ C21_LoaderRaisesRAGErrorAndRemovesTemp

DefaultsOnBothSides ==
    /\ input = <<>>
    /\ DOMAIN environ = {"GCP_PROJECT_ID", "USE_GCS_VECTOR_STORE"}
    /\ lower(environ["USE_GCS_VECTOR_STORE"]) = "true"

(* C30: with the default configuration on both sides (the same
   GCP_PROJECT_ID, ENVIRONMENT unset, USE_GCS_VECTOR_STORE true, neither
   VECTOR_STORE_BUCKET nor VECTOR_STORE_BLOB set), the bucket and the objects
   the loader downloads from are the bucket and the objects run_ingestion
   uploads to. *)
C30_LoaderReadsWhatIngestionWrites ==
    (pc = "rag_loaded" /\ DefaultsOnBothSides) =>
        {rag_calls[i] : i \in 1..Len(rag_calls)}
            = upload_targets(run_ingestion_config(environ).config)


-----------------------------------------------------------------------------
(* Spec, continued *)

(* C22: only transient errors are retried.  A stage is attempted more than
   once only after a transient error; a non-transient error in
   download_from_gcs or upload_to_gcs means exactly one attempt and is
   wrapped as IngestionError; for the download it aborts the run; the number
   of attempts never exceeds the retry budget, and the caller sees the last
   error (raised for the download, in stats for the upload). *)
C22_NonTransientErrorIsNotRetried ==
    /\ attempts <= RetryBudget
    /\ attempts > 1 => if_transient_error(cause)
    /\ (failed_stage \in {"download", "upload"} /\ ~if_transient_error(cause)
        /\ pc \in {"cleanup", "returned", "raised"}) =>
          /\ attempts = 1
          /\ failed_stage = "download" =>
                /\ pending = IngestionError(<<"GCS download failed">> \o cause.msg)
                /\ stages = <<"download">>
                /\ ~stats.success
                /\ pc = "raised" => error = pending
          /\ failed_stage = "upload" =>
                Get(stats, "upload_error", <<>>) = <<"GCS upload failed">> \o cause.msg

C22_Witness ==
    /\ pc = "returned"
    /\ failed_stage = "upload"
    /\ cause = Forbidden
    /\ attempts = 1
    /\ Get(stats, "upload_failed", FALSE) = TRUE


NoChunksProvided == IngestionError(<<"No chunks provided for vector store creation">>)

(* C25: when processing yields no chunk, create_vector_store fails with
   IngestionError before anything is embedded: no index artifact is written
   in the working directory, no upload is attempted and no remote object is
   written by the run, and the run fails with that error. *)
C25_NoChunksFailsBeforeEmbedding ==
    (InStages("build") /\ chunks = <<>>) =>
        /\ pending = NoChunksProvided
        /\ failed_stage = "build"
        /\ artifact = [dir |-> FALSE, files |-> EmptyFs]
        /\ ~InStages("upload")
        /\ \A p \in DOMAIN remote : remote[p] # "this_run"
        /\ ~stats.success
        /\ pc \in {"cleanup", "raised"}
        /\ pc = "raised" => error = NoChunksProvided

C25_Witness ==
    /\ pc = "raised"
    /\ stages = <<"download", "validate", "process", "build">>
    /\ parser_called
    /\ chunks = <<>>
    /\ stats.chunks_created = 0
    /\ error = NoChunksProvided

Running == pc \in {"download", "validate", "process", "build", "upload", "cleanup"}

(* C27: every run that was started eventually reaches a terminal state, it
   returns or it raises, provided every external call returns or raises;
   retrying does not go on forever. *)
C27_EveryRunTerminates == Running ~> Terminal

C27_Witness ==
    /\ pc = "raised"
    /\ run_id = MaxRuns
    /\ failed_stage = "download"
    /\ if_transient_error(cause)
    /\ attempts <= RetryBudget

(* The names of the objects of the bucket that end in .pdf, in any case *)
PdfObjects ==
    {BlobNames[i].name : i \in {j \in DOMAIN bucket : BlobNames[j].suffix \in {".pdf", ".PDF"}}}

(* C28: the download is all or nothing.  A run that goes on to validation
   holds the path of every object whose name ends in .pdf, whatever the
   case, each one written to the working directory, and of no other object;
   a download that raised hands no path to the run, which does not validate
   anything. *)
C28_DownloadIsAllOrNothing ==
    /\ InStages("validate") =>
          /\ Range(pdf_files) = PdfObjects
          /\ Len(pdf_files) = Cardinality(PdfObjects)
          /\ failed_stage # "download"
    /\ pc = "validate" => \A i \in 1..Len(pdf_files) : pdf_files[i] \in DOMAIN fs
    /\ failed_stage = "download" =>
          /\ pdf_files = <<>>
          /\ valid_files = <<>>
          /\ stages = <<"download">>
          /\ pending.type = "IngestionError"

C28_Witness ==
    /\ pc = "validate"
    /\ pdf_files = <<"a.pdf", "b.PDF">>
    /\ DOMAIN bucket = 1..Len(BlobNames)
    /\ DOMAIN fs = {"a.pdf", "b.PDF"}

(* C29: stats.files_processed is the number of PDF objects downloaded.  It
   is recorded when the download returns, before validation, and stays as
   it is from then on: it counts the files validate_pdf_files drops, so it
   is at least the number of files handed to the parser, and it is 0 when
   the download raised. *)
C29_FilesProcessedCountsDownloads ==
    /\ (pc = "validate" \/ InStages("validate")) =>
          /\ stats.files_processed = Len(pdf_files)
          /\ stats.files_processed = Cardinality(PdfObjects)
    /\ InStages("process") => stats.files_processed >= Len(valid_files)
    /\ (pc = "download" \/ failed_stage = "download") => stats.files_processed = 0

C29_Witness ==
    /\ pc = "returned"
    /\ stats.success
    /\ stats.files_processed = 2
    /\ Len(valid_files) = 1
    /\ parser_called

-----------------------------------------------------------------------------
(* ChunkSpec, continued *)

(* The number of windows the splitter cuts the text elements of a parser's
   answer into *)
RECURSIVE TextWindows(_)
TextWindows(elements) ==
    IF elements = <<>> THEN 0
    ELSE (IF IsText(Head(elements))
          THEN Len(split_text(Head(elements).page_content, config.chunk_size,
                              config.chunk_overlap))
          ELSE 0) + TextWindows(Tail(elements))

Discarded(e) == ~IsTable(e) /\ ~IsText(e)

(* C23: the classification of elements is total.  A Table element goes to
   the table lane, a Title, NarrativeText or ListItem element to the text
   lane, and an element of any other category, or of none, is discarded: it
   gives no chunk and no error.  So every chunk is a table or a text chunk,
   the table chunks come from the Table elements, the text chunks from the
   text elements, and there is nothing else. *)
C23_ClassificationIsTotal ==
    pc = "chunked" =>
        /\ process_documents(valid_files, [raised |-> None, elements |-> input],
                             config, now).raised = None
        /\ \A i \in 1..Len(chunks) : chunks[i].metadata.content_type \in {"table", "text"}
        /\ Len(TableChunks) = Len(TablesWithHtml)
        /\ Len(TextChunks) = TextWindows(input)
        /\ Len(chunks) = Len(TableChunks) + Len(TextChunks)
        /\ (\A i \in 1..Len(input) : Discarded(input[i])) => chunks = <<>>

C23_Witness ==
    /\ pc = "chunked"
    /\ Len(input) = 2
    /\ "category" \notin DOMAIN input[2].metadata
    /\ IsText(input[1])
    /\ Len(chunks) > 0
    /\ \A i \in 1..Len(chunks) : chunks[i].metadata.content_type = "text"


(* C24: no chunk process_documents returns has empty or whitespace-only
   content, in the table lane or in the text lane. *)
C24_NoBlankChunk ==
    pc = "chunked" => \A i \in 1..Len(chunks) : strip(chunks[i].page_content) # <<>>

(* What does hold: no chunk is empty, and a text chunk is blank only when
   chunk_size is 1 *)
NoEmptyChunk ==
    pc = "chunked" =>
        \A i \in 1..Len(chunks) :
            /\ chunks[i].page_content # <<>>
            /\ (chunks[i].metadata.content_type = "text" /\ config.chunk_size > 1) =>
                   strip(chunks[i].page_content) # <<>>


(* C26: stats.chunks_created is the number of chunks handed to the index
   builder, which is the number of Table elements with non-empty HTML plus
   the number of windows of the text elements, and every window has at most
   chunk_size characters.  A paragraph a fifth longer than chunk_size with
   one table, under the default chunk_size and chunk_overlap, gives 3. *)
C26_ChunksCreatedCountsTablesAndWindows ==
    pc = "chunked" =>
        /\ stats.chunks_created = Len(chunks)
        /\ Len(chunks) = Len(TablesWithHtml) + TextWindows(input)
        /\ \A i \in 1..Len(TextChunks) :
              Len(TextChunks[i].page_content) <= config.chunk_size
        /\ input \in ExampleInputs => stats.chunks_created = 3

C26_Witness ==
    /\ pc = "chunked"
    /\ input \in ExampleInputs
    /\ config = ExampleConfig
    /\ stats.chunks_created = 3
    /\ Len(TableChunks) = 1
    /\ Len(TextChunks) = 2


====
